---------------------------- MODULE Spec2Model ----------------------------
(***************************************************************************)
(* State-machine model of SIPS (gui/sips_gui.py) and of the series loaders *)
(* (source/series_handling_functions.py).                                  *)
(*                                                                         *)
(* A series is modelled as the sequence of the source frame numbers it     *)
(* holds (the last numpy axis); pixel contents are not part of this model. *)
(* Python's None is the one-element sequence <<-1>>, which no loader       *)
(* returns.  The text of an entry widget is <<n>> when int() reads it as n *)
(* and <<>> when int() raises ValueError (the entries accept digits only,  *)
(* so the only such text is the empty one).                                *)
(*                                                                         *)
(* Specifications:                                                         *)
(*   Spec        mode, order and frame selection, import and update_gui    *)
(*   SpecPlay    mode, order and frame selection with the playback loop    *)
(*   SpecExport  the export handlers, stepped one loop iteration at a time *)
(*   SpecLoad    import_rawdata interleaved with its loader thread         *)
(***************************************************************************)
EXTENDS Integers, Sequences, FiniteSets, TLC

\* ------------------------------------------------------------------ bounds
MaxFrames == 3      \* frames in a source / constructor array: 1..MaxFrames
MaxOrder == 2       \* neighbour orders offered: 1..MaxOrder
MaxEntry == 3       \* integers a user types into an entry: 0..MaxEntry
MaxIndex == 4       \* cap on a frame index that runs away (|index| <= MaxIndex)
MaxPending == 2     \* cap on scheduled loop_play callbacks
MaxSample == 2      \* small sample values: 0..MaxSample
SourceHeight == 2   \* rows of the frames of every data source
SourceWidth == 2    \* columns of the frames of every data source
MaxOps == 2         \* cap on the operations recorded per frame

\* ------------------------------------------------------- program constants
current_image_number_default == 0
neighbour_order_default == 1
pre_processing_default == 0
LastMode == 5

None == <<-1>>
NotInt == <<>>

Modes == pre_processing_default..LastMode
Orders == neighbour_order_default..MaxOrder
EntryValues == {<<n>> : n \in 0..MaxEntry} \cup {NotInt}
IsInt(text) == Len(text) = 1
int(text) == text[1]
SourceKinds == {"npy", "cine", "other", "dir", "missing"}

Min(a, b) == IF a < b THEN a ELSE b
Max(a, b) == IF a > b THEN a ELSE b

\* the series holding source frames first..last (empty when last < first)
Frames(first, last) == [i \in 1..(last - first + 1) |-> first + i - 1]

\* array.shape[2]
shape2(array) == Len(array)

\* numpy/Python integer index j on an axis of length n: valid iff -n <= j < n
IndexOK(j, n) == -n <= j /\ j < n

\* Python slice [lo:hi] on an axis of length n: the positions it selects
SliceBound(j, n) == IF j < 0 THEN Max(j + n, 0) ELSE Min(j, n)
SliceLen(lo, hi, n) == Max(SliceBound(hi, n) - SliceBound(lo, n), 0)

\* ------------------------------------------------------------------- state
VARIABLES
    image_array,              \* self.image_array: the held series, or None
    displayed_array,          \* self.displayed_array: the series the pipeline reads
    pre_processing_value,     \* comparison mode 0..5
    neighbour_order_value,    \* neighbour order k
    current_image_number,     \* current frame index
    number_of_images,         \* exposed (effective) frame count
    frames_read,              \* indices the last apply_pre_processing asked displayed_array for
    play_state,               \* self.play_state
    loop_pending,             \* loop_play callbacks scheduled with root.after
    data_import_status,       \* data_import_status_label['text']
    save_from, save_to,       \* self.save_from, self.save_to
    save_from_value, save_to_value,  \* the export range entries
    export_pc,                \* "idle", "loop" (an export handler is running), "failed"
    export_kind,              \* the running export: "all", "range", "video", "binary"
    export_index,             \* iterations the export loop has completed
    last_image,               \* export_images / export_video: the index to restore
    index_at_request,         \* (history) current_image_number when the export handler was entered
    exported,                 \* frame indices processed and handed to the sink so far
    baked_length,             \* export_np_binary: frames allocated in baked_array
    progressbar,              \* video_export_progressbar['value'] as num / den
    export_error,             \* the exception that ended the running export
    imp_pc,                   \* import_rawdata: "idle" or "poll" (in the polling loop)
    imp_count,                \* import_rawdata's local number_of_images
    counter,                  \* the progress list shared with the loader thread
    thread_pc,                \* CustomThread: "none", "started", "loop", "done"
    thread_args,              \* the loader call: path kind, start_image, end_image
    thread_return,            \* CustomThread._return
    thread_raised,            \* the loader ended with an exception
    total_image_count,        \* frames in the source, once the loader has opened it
    start_image, end_image,   \* the loader's range, as given and then as clamped
    image_stack,              \* the loader's buffer: the frames filled in so far
    stack_frames,             \* frames allocated for image_stack
    loop_i,                   \* the loader loop's i
    loop_half,                \* 1 between the two statements of a loop iteration
    call,                     \* the last direct call of a loader or of the averager
    returned,                 \* what that call gave its caller
    previous,                 \* the call before it and its outcome
    pixel_op,                 \* the elementwise operation last applied
    pixel_in,                 \* its inputs
    pixel_out,                \* its result
    array_shape,              \* image_array.shape[:2] as <<height, width>>
    frame_ops,                \* per frame of image_array: what was done to its samples
    flat, dark,               \* self.flat, self.dark: None, 0, or the frame's shape
    y_top, y_bot, x_left, x_right,  \* the crop corners
    image_tilt,               \* self.image_tilt, as the tangent <<num, den>> of the angle
    clicked,                  \* self.clicked: the first point of the angle is set
    angle_coordinates,        \* the first point <<x1, y1>>, or <<>>
    displayed_ops,            \* per frame of displayed_array: what was done to its samples
    shares,                   \* image_array is, or is a view of, displayed_array's memory
    clipping_check,           \* self.clipping_check: 1 when the clip stage is enabled
    prep_error                \* the exception that ended the last preparation handler, or "none"

navVars == <<image_array, displayed_array, pre_processing_value, neighbour_order_value,
             current_image_number, number_of_images, frames_read,
             play_state, loop_pending, data_import_status>>
saveVars == <<save_from, save_to, save_from_value, save_to_value>>
exportVars == <<export_pc, export_kind, export_index, last_image, index_at_request, exported,
                baked_length, progressbar, export_error>>
importVars == <<imp_pc, imp_count>>
threadVars == <<counter, thread_pc, thread_args, thread_return, thread_raised,
                total_image_count, start_image, end_image, image_stack, stack_frames, loop_i, loop_half>>
loadVars == <<importVars, threadVars>>
callVars == <<call, returned, previous>>
pixelVars == <<pixel_op, pixel_in, pixel_out>>
seriesVars == <<array_shape, frame_ops>>
cropVars == <<y_top, y_bot, x_left, x_right>>
tiltVars == <<image_tilt, clicked, angle_coordinates>>
refVars == <<flat, dark>>
prepVars == <<refVars, cropVars, tiltVars, prep_error>>
pipeVars == <<clipping_check>>
aliasVars == <<displayed_ops, shares>>
restVars == <<callVars, pixelVars, seriesVars, prepVars, pipeVars, aliasVars>>
vars == <<navVars, saveVars, exportVars, loadVars, restVars>>

\* ------------------------------------------------ nielsen_algorithm.py
\* stack indices sum_differences / sum_ratios read: the base, and start_index + i
\* for i in range(start_index + 1, start_index + frame_count + 1)
NielsenStackIndices(start_index, frame_count) ==
    {start_index} \cup
    {start_index + i : i \in (start_index + 1)..(start_index + frame_count)}

\* ------------------------------------------------ apply_pre_processing
NeighbourModes == {2, 4, 5}

\* the indices of displayed_array a mode asks for at frame index i, order k
RequestedFrames(mode, i, k) ==
    CASE mode = 1 -> {i, 0}
      [] mode = 2 -> {i + k, i}
      [] mode = 3 -> {i, 0}
      [] mode = 4 -> {i + k, i}
      [] mode = 5 -> {i + m : m \in NielsenStackIndices(0, k)}
      [] OTHER -> {i}

\* the exception apply_pre_processing ends with, "none" when it returns a frame
PreProcessingError(array, mode, i, k) ==
    IF array = None THEN "TypeError"
    ELSE IF mode = 5
         THEN IF \E m \in NielsenStackIndices(0, k) :
                    ~IndexOK(m, SliceLen(i, i + k + 1, shape2(array)))
              THEN "IndexError" ELSE "none"
         ELSE IF \E j \in RequestedFrames(mode, i, k) : ~IndexOK(j, shape2(array))
              THEN "IndexError" ELSE "none"

\* ------------------------------------------- update_image_selection_scale
\* mutant: the Nielsen mode exposes every frame
effective_number_of_images_all(mode, total, order) ==
    CASE mode = 2 -> total - order
      [] mode = 4 -> total - order
      [] OTHER -> total

effective_number_of_images(mode, total, order) ==
    CASE mode = 1 -> total
      [] mode = 2 -> total - order
      [] mode = 3 -> total
      [] mode = 4 -> total - order
      [] mode = 5 -> total - order
      [] OTHER -> total

\* the save_to entry after update_image_selection_scale exposed n frames
scale_save_to_value(n) ==
    IF save_to >= n - 1 THEN <<n - 1>> ELSE save_to_value

\* redraw_image at index i under the (new) mode, order and displayed array
Redraw(array, mode, i, k) ==
    frames_read' = IF array = None THEN {} ELSE RequestedFrames(mode, i, k)

\* a handler that fails on displayed_array = None before it can redraw
NoSeries == frames_read' = {}

\* ------------------------------------- loaders and averager, called directly
\* What a call gives its caller: a returned value (tag "value"), a returned
\* None (tag "None"), a returned integer 0 (tag "zero") or an exception (tag
\* "raise", exc its class).  A value is a stack of frames, or with mean set the
\* one frame that is the mean of that stack.
Returned(value) == [tag |-> "value", value |-> value, mean |-> FALSE, exc |-> ""]
ReturnedNone == [tag |-> "None", value |-> None, mean |-> FALSE, exc |-> ""]
ReturnedZero == [tag |-> "zero", value |-> None, mean |-> FALSE, exc |-> ""]
Raised(exc) == [tag |-> "raise", value |-> None, mean |-> FALSE, exc |-> exc]

NoCall ==
    /\ call = [fn |-> "", kind |-> "", exists |-> TRUE, pycine |-> TRUE]
    /\ returned = ReturnedNone
    /\ previous = [call |-> call, tag |-> returned.tag, exc |-> returned.exc]

\* ---------------------------------------------------------------- samples
\* The elementwise operations are modelled at one pixel position: a column is
\* the samples of the frames of a stack at that position.  A sample is a
\* rational <<numerator, denominator>> in lowest terms, denominator > 0.
RECURSIVE GCD(_, _)
GCD(a, b) == IF b = 0 THEN a ELSE GCD(b, a % b)
Abs(a) == IF a < 0 THEN 0 - a ELSE a
Q(n, d) ==
    LET s == IF d < 0 THEN 0 - 1 ELSE 1
        g == GCD(Abs(n), Abs(d))
    IN <<(s * n) \div g, (s * d) \div g>>
QInt(n) == <<n, 1>>
QSub(a, b) == Q(a[1] * b[2] - b[1] * a[2], a[2] * b[2])
QAdd(a, b) == Q(a[1] * b[2] + b[1] * a[2], a[2] * b[2])
QMul(a, b) == Q(a[1] * b[1], a[2] * b[2])
QDiv(a, b) == Q(a[1] * b[2], a[2] * b[1])
QLess(a, b) == a[1] * b[2] < b[1] * a[2]
\* the integer a float is cut to by a cast: towards zero
Trunc(a) == IF a[1] >= 0 THEN a[1] \div a[2] ELSE 0 - ((0 - a[1]) \div a[2])

SmallSamples == 0..MaxSample
ColumnsOf(values) == UNION {[1..n -> values] : n \in 1..MaxFrames}

\* the largest sample of an unsigned integer dtype
TypeMax(dtype) == IF dtype = "uint8" THEN 2^8 - 1 ELSE 2^16 - 1
IsFloat(dtype) == dtype = "float32"

\* array[...] = value: what a store into an array of dtype leaves there.  A
\* float array keeps the value; an integer array cuts it towards zero, and a cut
\* value outside the dtype is undefined in the C cast numpy uses: a build
\* either wraps it or saturates it (wraps says which).
stored(value, dtype, wraps) ==
    IF IsFloat(dtype) THEN value
    ELSE LET cut == Trunc(value)
         IN IF 0 <= cut /\ cut <= TypeMax(dtype) THEN QInt(cut)
            ELSE IF wraps THEN QInt(cut % (TypeMax(dtype) + 1))
            ELSE QInt(IF cut < 0 THEN 0 ELSE TypeMax(dtype))

NoPixels ==
    /\ pixel_op = ""
    /\ pixel_in = <<>>
    /\ pixel_out = <<>>

PixelFrame == <<navVars, saveVars, exportVars, loadVars, callVars, seriesVars, prepVars,
                pipeVars, aliasVars>>

\* ----------------------------------------------------------- series buffer
\* Every data source holds frames of SourceHeight x SourceWidth samples.  The
\* samples of a frame are followed as the operations applied to them since the
\* frame was loaded: "rotate", "crop", "correct".
SourceShape == <<SourceHeight, SourceWidth>>
NoShape == <<>>
shape_of(array) == IF array = None THEN NoShape ELSE SourceShape
FreshOps(array) == IF array = None THEN <<>> ELSE [j \in 1..Len(array) |-> <<>>]

\* -------------------------------------------------------------- ratio modes
\* np.where(b == 0, np.where(a == 0, 1, 1), a / b) at one pixel
\* (first the variant whose inner branches differ: a non-zero numerator over
\* 0 gives 0)
masked_ratio_nonzero(a, b) == IF b = 0 THEN IF a = 0 THEN QInt(1) ELSE QInt(0) ELSE Q(a, b)
masked_ratio(a, b) == IF b = 0 THEN IF a = 0 THEN QInt(1) ELSE QInt(1) ELSE Q(a, b)

\* apply_pre_processing in mode 3 (ratio to frame 0) and mode 4 (ratio of
\* frame i + order to frame i), followed at one pixel: column holds the
\* pixel's sample in every frame.  A frame index beyond the series raises
\* IndexError before anything is divided.
apply_ratio(mode, column, i, order) ==
    LET a == IF mode = 3 THEN i ELSE i + order
        b == IF mode = 3 THEN 0 ELSE i
    IN /\ pixel_op = ""
       /\ pixel_in' = [mode |-> mode, column |-> column, i |-> i, order |-> order]
       /\ IF IndexOK(a, Len(column)) /\ IndexOK(b, Len(column))
          THEN /\ pixel_op' = IF mode = 3 THEN "ratio_total" ELSE "ratio_neighbour"
               /\ pixel_out' = <<masked_ratio(column[a + 1], column[b + 1])>>
          ELSE /\ pixel_op' = "IndexError"
               /\ pixel_out' = <<>>
       /\ UNCHANGED PixelFrame

\* -------------------------------------------------------- Nielsen combiner
lowest == 0         \* nielsen_sat_function's lower limit
highest == 255      \* nielsen_sat_function's upper limit
StackTypes == {"uint8", "uint16", "float32"}
NielsenSamples == SmallSamples \cup {100, 150, 255}
Weights == {1, 200}            \* the ends of the ratio scaling slider

\* base_image - subtracted_image in the stack's sample type: unsigned
\* integers wrap around modulo 2^8 resp. 2^16
subtracted(base, sample, dtype) ==
    IF IsFloat(dtype) THEN base - sample ELSE (base - sample) % (TypeMax(dtype) + 1)

\* the variant without the upper limit
nielsen_sat_function_open(value) ==
    IF QLess(value, QInt(lowest)) THEN QInt(lowest) ELSE value

nielsen_sat_function(value) ==
    IF QLess(value, QInt(lowest)) THEN QInt(lowest)
    ELSE IF QLess(QInt(highest), value) THEN QInt(highest) ELSE value

calculate_difference(base, sample, dtype) ==
    nielsen_sat_function(QInt(subtracted(base, sample, dtype)))

calculate_ratio(base, sample, q) ==
    nielsen_sat_function(QMul(QInt(q), IF sample = 0 THEN QInt(1) ELSE Q(base, sample)))

RECURSIVE QSum(_)
QSum(terms) == IF terms = <<>> THEN QInt(0)
               ELSE QAdd(terms[1], QSum(Tail(terms)))

\* the frames the loops read: image_stack[:, :, start_index + i] for
\* i in range(start_index + 1, start_index + frame_count + 1)
loop_frames(start_index, frame_count) ==
    [k \in 1..frame_count |-> start_index + (start_index + k)]

\* sum_differences and sum_ratios at one pixel of a stack; column holds the
\* pixel's sample in every frame.  A frame beyond the stack raises IndexError.
nielsen_sums(dtype, column, start_index, frame_count, q) ==
    LET read == loop_frames(start_index, frame_count)
        base == column[start_index + 1]
    IN /\ pixel_op = ""
       /\ pixel_in' = [dtype |-> dtype, column |-> column, start_index |-> start_index,
                       frame_count |-> frame_count, q |-> q]
       /\ IF \A k \in 1..frame_count : IndexOK(read[k], Len(column))
          THEN LET differences == [k \in 1..frame_count |->
                                      calculate_difference(base, column[read[k] + 1], dtype)]
                   ratios == [k \in 1..frame_count |->
                                 calculate_ratio(base, column[read[k] + 1], q)]
               IN /\ pixel_op' = "nielsen"
                  /\ pixel_out' = [differences |-> differences, ratios |-> ratios,
                                   sum_differences |-> QSum(differences),
                                   sum_ratios |-> QSum(ratios)]
          ELSE /\ pixel_op' = "IndexError"
               /\ pixel_out' = <<>>
       /\ UNCHANGED PixelFrame

\* ------------------------------------------------------------ convert_image
MaxPixels == 3      \* pixels of the images converted: 0..MaxPixels
Images == UNION {[1..n -> SmallSamples] : n \in 0..MaxPixels}
NotGiven == <<>>                                   \* image_min=None, image_max=None
Limits == {NotGiven} \cup {<<v>> : v \in SmallSamples}
Targets == {[type |-> "uint8", low |-> 0, high |-> 2^8 - 1],
            [type |-> "uint16", low |-> 0, high |-> 2^16 - 1]}

RECURSIVE SeqMin(_)
SeqMin(image) == IF Len(image) = 1 THEN image[1] ELSE Min(image[1], SeqMin(Tail(image)))
RECURSIVE SeqMax(_)
SeqMax(image) == IF Len(image) = 1 THEN image[1] ELSE Max(image[1], SeqMax(Tail(image)))

\* (the variant that escapes only for an image of zeros)
escapes_at_zero(image_min, image_max) == image_min = image_max /\ image_min = 0
\* if image_min == image_max
escapes(image_min, image_max) == image_min = image_max

\* convert_image once the limits are known.  A zero divisor, under
\* np.errstate(divide='ignore'), gives a = inf and samples of nan, whose cast
\* to an integer type is whatever the build makes of it.
converted(image, target, image_min, image_max, wraps) ==
    IF escapes(image_min, image_max)
    THEN [type |-> target.type, divided |-> FALSE, by_zero |-> FALSE,
          pixels |-> [p \in 1..Len(image) |-> QInt(0)]]
    ELSE IF image_max - image_min = 0
    THEN [type |-> target.type, divided |-> TRUE, by_zero |-> TRUE,
          pixels |-> [p \in 1..Len(image) |->
                         QInt(IF wraps THEN 0 ELSE TypeMax(target.type))]]
    ELSE LET a == Q(target.high - target.low, image_max - image_min)
             b == QSub(QInt(target.high), QMul(a, QInt(image_max)))
         IN [type |-> target.type, divided |-> TRUE, by_zero |-> FALSE,
             pixels |-> [p \in 1..Len(image) |->
                            stored(QAdd(QMul(a, QInt(image[p])), b), target.type, wraps)]]

\* convert_image: limits that are not given are the image's own minimum and
\* maximum, which an image without pixels does not have (ValueError).
convert_image(image, target, given_min, given_max, wraps) ==
    /\ pixel_op = ""
    /\ pixel_in' = [image |-> image, target |-> target, image_min |-> given_min,
                    image_max |-> given_max]
    /\ IF image = <<>> /\ (given_min = NotGiven \/ given_max = NotGiven)
       THEN /\ pixel_op' = "ValueError"
            /\ pixel_out' = <<>>
       ELSE /\ pixel_op' = "convert_image"
            /\ pixel_out' = converted(image, target,
                                      IF given_min = NotGiven THEN SeqMin(image)
                                      ELSE given_min[1],
                                      IF given_max = NotGiven THEN SeqMax(image)
                                      ELSE given_max[1], wraps)
    /\ UNCHANGED PixelFrame

\* ------------------------------------------------ apply_pre_processing, per pixel
\* the frames a two-frame mode combines, as <<left operand, right operand>>
\* (first the variant with the neighbour difference the other way round)
operands_reversed(mode, i, k) ==
    CASE mode = 1 -> <<i, 0>>
      [] mode = 2 -> <<i, i + k>>
      [] mode = 3 -> <<i, 0>>
      [] mode = 4 -> <<i + k, i>>
operands(mode, i, k) ==
    CASE mode = 1 -> <<i, 0>>
      [] mode = 2 -> <<i + k, i>>
      [] mode = 3 -> <<i, 0>>
      [] mode = 4 -> <<i + k, i>>

\* image_stack[:, :, i : i + k + 1] at one pixel
window(column, i, k) ==
    SubSeq(column, SliceBound(i, Len(column)) + 1, SliceBound(i + k + 1, Len(column)))

\* nielsen_linear_comb(image_stack, start_index, frame_count, d, q) at one pixel
nielsen_linear_comb(stack, dtype, start_index, frame_count, d, q) ==
    LET read == loop_frames(start_index, frame_count)
        base == stack[start_index + 1]
    IN QAdd(QMul(QInt(d), QSum([m \in 1..frame_count |->
                                   calculate_difference(base, stack[read[m] + 1], dtype)])),
            QSum([m \in 1..frame_count |->
                     calculate_ratio(base, stack[read[m] + 1], q)]))

\* apply_pre_processing at one pixel of a series of the given sample type;
\* column holds the pixel's sample in every frame.  A frame index beyond the
\* series, or beyond the window handed to the combiner, raises IndexError.
apply_pre_processing(dtype, column, mode, i, k, d, q) ==
    LET n == Len(column)
    IN /\ pixel_op = ""
       /\ pixel_in' = [dtype |-> dtype, column |-> column, mode |-> mode, i |-> i,
                       k |-> k, d |-> d, q |-> q]
       /\ IF mode \in 1..4
          THEN LET pair == operands(mode, i, k)
               IN IF IndexOK(pair[1], n) /\ IndexOK(pair[2], n)
                  THEN /\ pixel_op' = "apply_pre_processing"
                       /\ pixel_out' =
                              <<IF mode \in {1, 2}
                                THEN QInt(subtracted(column[pair[1] + 1],
                                                     column[pair[2] + 1], dtype))
                                ELSE masked_ratio(column[pair[1] + 1], column[pair[2] + 1])>>
                  ELSE /\ pixel_op' = "IndexError"
                       /\ pixel_out' = <<>>
          ELSE IF mode = 5
          THEN LET stack == window(column, i, k)
               IN IF \A m \in 1..k : IndexOK(loop_frames(0, k)[m], Len(stack))
                  THEN /\ pixel_op' = "apply_pre_processing"
                       /\ pixel_out' = <<nielsen_linear_comb(stack, dtype, 0, k, d, q)>>
                  ELSE /\ pixel_op' = "IndexError"
                       /\ pixel_out' = <<>>
          ELSE IF IndexOK(i, n)
          THEN /\ pixel_op' = "apply_pre_processing"
               /\ pixel_out' = <<QInt(column[i + 1])>>
          ELSE /\ pixel_op' = "IndexError"
               /\ pixel_out' = <<>>
       /\ UNCHANGED PixelFrame

\* ------------------------------------------------------------ construction
\* no import_rawdata call is running: its locals and its thread do not exist
NoImport ==
    /\ imp_pc = "idle"
    /\ imp_count = 0
    /\ counter = <<1>>
    /\ thread_pc = "none"
    /\ thread_args = [kind |-> "", start |-> 0, end |-> 0]
    /\ thread_return = None
    /\ thread_raised = FALSE
    /\ total_image_count = 0
    /\ start_image = 0
    /\ end_image = 0
    /\ image_stack = <<>>
    /\ stack_frames = 0
    /\ loop_i = 0
    /\ loop_half = 0

Init ==
    /\ \E n \in 1..MaxFrames : image_array = Frames(0, n - 1)
    /\ displayed_array = image_array
    /\ pre_processing_value = pre_processing_default
    /\ neighbour_order_value = neighbour_order_default
    /\ current_image_number = current_image_number_default
    /\ number_of_images = shape2(displayed_array)
    /\ frames_read = {current_image_number_default}
    /\ play_state = FALSE
    /\ loop_pending = 0
    /\ data_import_status = "Processing status:"
    /\ save_from = 0
    /\ save_to = number_of_images - 1
    /\ save_from_value = <<0>>
    /\ save_to_value = <<number_of_images - 1>>
    /\ export_pc = "idle"
    /\ export_kind = "none"
    /\ export_index = 0
    /\ last_image = 0
    /\ index_at_request = 0
    /\ exported = <<>>
    /\ baked_length = 0
    /\ progressbar = [num |-> 0, den |-> 1]
    /\ export_error = "none"
    /\ NoImport
    /\ NoCall
    /\ NoPixels
    /\ array_shape = SourceShape
    /\ frame_ops = FreshOps(image_array)
    /\ flat = None
    /\ dark = None
    /\ y_top = 0
    /\ y_bot = array_shape[1]
    /\ x_left = 0
    /\ x_right = array_shape[2]
    /\ image_tilt = QInt(0)
    /\ clicked = FALSE
    /\ angle_coordinates = <<>>
    /\ prep_error = "none"
    /\ clipping_check = 0
    /\ displayed_ops = frame_ops
    /\ shares = TRUE

\* ------------------------------------------------------- mode and order
\* mutant: the index is reset only when it lies past the exposed count
reset_index_past(i, n) == IF i > n THEN current_image_number_default ELSE i

reset_index(i, n) == IF i >= n THEN current_image_number_default ELSE i

select_pre_processing_mode(e) ==
    /\ pre_processing_value' = e
    /\ IF displayed_array = None
       THEN /\ NoSeries
            /\ UNCHANGED <<number_of_images, current_image_number, save_to_value>>
       ELSE LET n == effective_number_of_images(e, shape2(displayed_array),
                                                neighbour_order_value)
                i == reset_index(current_image_number, n)
            IN /\ number_of_images' = n
               /\ save_to_value' = scale_save_to_value(n)
               /\ current_image_number' = i
               /\ Redraw(displayed_array, e, i, neighbour_order_value)
    /\ UNCHANGED <<image_array, displayed_array, neighbour_order_value, play_state,
                   loop_pending, data_import_status, save_from, save_to, save_from_value,
                   exportVars, loadVars, restVars>>

select_neighbour_order(e) ==
    /\ neighbour_order_value' = e
    /\ IF displayed_array = None
       THEN /\ NoSeries
            /\ UNCHANGED <<number_of_images, current_image_number, save_to_value>>
       ELSE LET n == effective_number_of_images(pre_processing_value,
                                                shape2(displayed_array), e)
                i == reset_index(current_image_number, n)
            IN /\ number_of_images' = n
               /\ save_to_value' = scale_save_to_value(n)
               /\ current_image_number' = i
               /\ Redraw(displayed_array, pre_processing_value, i, e)
    /\ UNCHANGED <<image_array, displayed_array, pre_processing_value, play_state,
                   loop_pending, data_import_status, save_from, save_to, save_from_value,
                   exportVars, loadVars, restVars>>

\* -------------------------------------------------------- frame selection
\* the frame slider, whose range is 0..number_of_images - 1
display_next_image(e) ==
    /\ e \in 0..(number_of_images - 1)
    /\ current_image_number' = e
    /\ Redraw(displayed_array, pre_processing_value, e, neighbour_order_value)
    /\ UNCHANGED <<image_array, displayed_array, pre_processing_value,
                   neighbour_order_value, number_of_images, play_state, loop_pending,
                   data_import_status, saveVars, exportVars, loadVars, restVars>>

previous_index(i, n) == IF i = 0 THEN n - 1 ELSE i - 1

previous_frame ==
    /\ current_image_number > -MaxIndex
    /\ LET i == previous_index(current_image_number, number_of_images)
       IN /\ current_image_number' = i
          /\ Redraw(displayed_array, pre_processing_value, i, neighbour_order_value)
    /\ UNCHANGED <<image_array, displayed_array, pre_processing_value,
                   neighbour_order_value, number_of_images, play_state, loop_pending,
                   data_import_status, saveVars, exportVars, loadVars, restVars>>

next_index(i, n) == IF i = n - 1 THEN 0 ELSE i + 1

next_frame ==
    /\ current_image_number < MaxIndex
    /\ LET i == next_index(current_image_number, number_of_images)
       IN /\ current_image_number' = i
          /\ Redraw(displayed_array, pre_processing_value, i, neighbour_order_value)
    /\ UNCHANGED <<image_array, displayed_array, pre_processing_value,
                   neighbour_order_value, number_of_images, play_state, loop_pending,
                   data_import_status, saveVars, exportVars, loadVars, restVars>>

\* ----------------------------------------------------------------- playback
\* the index loop_play leaves, from the three playback entries
loop_play_index(i, n, skip_text, from_text, to_text) ==
    LET image_skip_number == IF IsInt(skip_text) THEN Min(int(skip_text), n - 1) ELSE 1
        play_from_value == IF IsInt(from_text) THEN Min(int(from_text), n - 1) ELSE 0
        play_to_value == IF IsInt(to_text)
                         THEN IF Min(int(to_text), n - 1) <= play_from_value
                              THEN n - 1 ELSE Min(int(to_text), n - 1)
                         ELSE n - 1
    IN IF \/ i + image_skip_number >= Min(play_to_value - 1, n - 1)
          \/ i < play_from_value
       THEN play_from_value
       ELSE i + image_skip_number

\* the callbacks scheduled once a loop_play call that started with `pending` returns
loop_reschedule(pending) == pending + 1

\* the body of loop_play while play_state is True
LoopBody(pending) ==
    /\ Redraw(displayed_array, pre_processing_value, current_image_number,
              neighbour_order_value)
    /\ IF PreProcessingError(displayed_array, pre_processing_value,
                             current_image_number, neighbour_order_value) = "none"
       THEN /\ \E skip_text, from_text, to_text \in EntryValues :
                 current_image_number' =
                     loop_play_index(current_image_number, number_of_images,
                                     skip_text, from_text, to_text)
            /\ loop_pending' = loop_reschedule(pending)
       ELSE /\ current_image_number' = current_image_number
            /\ loop_pending' = pending

start_play_video ==
    /\ IF play_state = FALSE
       THEN /\ loop_pending < MaxPending
            /\ play_state' = TRUE
            /\ LoopBody(loop_pending)
       ELSE /\ play_state' = FALSE
            /\ UNCHANGED <<current_image_number, loop_pending, frames_read>>
    /\ UNCHANGED <<image_array, displayed_array, pre_processing_value,
                   neighbour_order_value, number_of_images, data_import_status, saveVars, exportVars, loadVars, restVars>>

\* a scheduled loop_play callback runs
loop_play ==
    /\ loop_pending > 0
    /\ IF play_state = TRUE
       THEN LoopBody(loop_pending - 1)
       ELSE /\ loop_pending' = loop_pending - 1
            /\ UNCHANGED <<current_image_number, frames_read>>
    /\ UNCHANGED <<image_array, displayed_array, pre_processing_value,
                   neighbour_order_value, number_of_images, play_state,
                   data_import_status, saveVars, exportVars, loadVars, restVars>>

\* ------------------------------------------------------------------ loaders
\* load_from_file, .cine: the clamped range
cine_end_image(end_frame, frame_count) ==
    IF end_frame > frame_count - 1 THEN frame_count - 1 ELSE end_frame
cine_start_image(start_frame, end_frame) ==
    IF start_frame > end_frame THEN end_frame ELSE start_frame

\* load_from_images: the clamped end
images_end_image(end_frame, file_count) ==
    IF end_frame >= file_count THEN file_count - 1 ELSE end_frame

\* the exception load_from_images raises, "none" when it returns a stack:
\* file_names[start_image] past the list, np.zeros with a negative length,
\* np.min of a stack without frames
images_error(file_count, start_frame, end_frame) ==
    LET last == images_end_image(end_frame, file_count)
    IN IF start_frame >= file_count THEN "IndexError"
       ELSE IF last - start_frame + 1 <= 0 THEN "ValueError"
       ELSE "none"

\* what the loader run by the thread returns (None also when it raised, see
\* CustomThread.run): kind is the path's kind, total the frames in the source
loader_return(kind, pycine, total, start_frame, end_frame) ==
    CASE kind = "npy" -> Frames(0, total - 1)
      [] kind = "cine" ->
            IF ~pycine THEN None
            ELSE LET last == cine_end_image(end_frame, total)
                 IN Frames(cine_start_image(start_frame, last), last)
      [] kind = "dir" ->
            IF images_error(total, start_frame, end_frame) # "none" THEN None
            ELSE Frames(start_frame, images_end_image(end_frame, total))
      [] OTHER -> None

\* -------------------------------------------- direct calls of the loaders
\* load_from_images: os.listdir raises on a missing directory; then the range
load_from_images(exists, file_count, start_frame, end_frame) ==
    IF ~exists THEN Raised("FileNotFoundError")
    ELSE IF images_error(file_count, start_frame, end_frame) # "none"
    THEN Raised(images_error(file_count, start_frame, end_frame))
    ELSE Returned(Frames(start_frame, images_end_image(end_frame, file_count)))

\* load_from_file: kind is the path's extension ("npy", "cine", "other");
\* np.load and read_header raise on a missing file, a missing pycine package
\* and an unrecognised extension both end in a bare return
load_from_file(kind, exists, pycine, total, start_frame, end_frame) ==
    CASE kind = "npy" ->
            IF exists THEN Returned(Frames(0, total - 1))
            ELSE Raised("FileNotFoundError")
      [] kind = "cine" ->
            IF ~pycine THEN ReturnedNone
            ELSE IF ~exists THEN Raised("FileNotFoundError")
            ELSE Returned(loader_return("cine", TRUE, total, start_frame, end_frame))
      [] OTHER -> ReturnedNone

\* np.mean(series_stack, axis=2): the mean frame of a stack, AxisError on None
np_mean(loaded) ==
    IF loaded.tag = "value" THEN [loaded EXCEPT !.mean = TRUE]
    ELSE IF loaded.tag = "None" THEN Raised("AxisError")
    ELSE loaded

\* calculate_series_average: file_type is the extension the caller passes with
\* the path ("cine", "npy", "tif", "other")
calculate_series_average(file_type, exists, pycine, total, start_frame, end_frame) ==
    CASE file_type = "cine" ->
            np_mean(load_from_file("cine", exists, pycine, total, start_frame, end_frame))
      [] file_type = "npy" ->
            np_mean(load_from_file("npy", exists, pycine, total, start_frame, end_frame))
      [] file_type = "tif" ->
            np_mean(load_from_images(exists, total, start_frame, end_frame))
      [] OTHER -> ReturnedZero

CallFrame == <<navVars, saveVars, exportVars, loadVars, pixelVars, seriesVars, prepVars,
               pipeVars, aliasVars>>

\* a call as its caller sees it: what was called on what, and what came back
DirectCall(fn, kind, exists, pycine, result) ==
    [call |-> [fn |-> fn, kind |-> kind, exists |-> exists, pycine |-> pycine],
     outcome |-> result]

\* the calls a script can make, over every source and range
LoadFromFileCalls ==
    {DirectCall("load_from_file", kind, exists, pycine,
                load_from_file(kind, exists, pycine, total, start_frame, end_frame)) :
        kind \in {"npy", "cine", "other"}, exists \in BOOLEAN, pycine \in BOOLEAN,
        total \in 1..MaxFrames, start_frame \in 0..MaxEntry, end_frame \in 0..MaxEntry}

LoadFromImagesCalls ==
    {DirectCall("load_from_images", "tif", exists, pycine,
                load_from_images(exists, total, start_frame, end_frame)) :
        exists \in BOOLEAN, pycine \in BOOLEAN,
        total \in 1..MaxFrames, start_frame \in 0..MaxEntry, end_frame \in 0..MaxEntry}

SeriesAverageCalls ==
    {DirectCall("calculate_series_average", kind, exists, pycine,
                calculate_series_average(kind, exists, pycine, total, start_frame,
                                         end_frame)) :
        kind \in {"npy", "cine", "tif", "other"}, exists \in BOOLEAN,
        pycine \in BOOLEAN,
        total \in 1..MaxFrames, start_frame \in 0..MaxEntry, end_frame \in 0..MaxEntry}

\* the caller keeps what the call before gave: its tag and exception class
Kept(made_call, result) == [call |-> made_call, tag |-> result.tag, exc |-> result.exc]

call_load_from_file(made) ==
    /\ call' = made.call
    /\ returned' = made.outcome
    /\ previous' = Kept(call, returned)
    /\ UNCHANGED CallFrame

call_load_from_images(made) ==
    /\ call' = made.call
    /\ returned' = made.outcome
    /\ previous' = Kept(call, returned)
    /\ UNCHANGED CallFrame

call_calculate_series_average(made) ==
    /\ call' = made.call
    /\ returned' = made.outcome
    /\ previous' = Kept(call, returned)
    /\ UNCHANGED CallFrame

\* ------------------------------------------------ flat/dark correction
\* np.where(dark_corrected_flat == 0, 1, dark_corrected_image / dark_corrected_flat)
\* at one pixel; flat and dark are float frames
corrected_sample(raw, flat_sample, dark_sample) ==
    IF QSub(flat_sample, dark_sample) = QInt(0) THEN QInt(1)
    ELSE QDiv(QSub(raw, dark_sample), QSub(flat_sample, dark_sample))

\* the correction loop at one pixel position: every frame's sample is corrected
\* and stored back into the series, whose dtype the store casts to
apply_correction_loop(dtype, wraps, column, flat_sample, dark_sample) ==
    /\ pixel_op = ""
    /\ pixel_op' = "flat_dark_correction"
    /\ pixel_in' = [dtype |-> dtype, raw |-> column, flat |-> flat_sample,
                    dark |-> dark_sample]
    /\ pixel_out' = [j \in 1..Len(column) |->
                        stored(corrected_sample(QInt(column[j]), QInt(flat_sample),
                                                QInt(dark_sample)), dtype, wraps)]
    /\ UNCHANGED PixelFrame

\* ----------------------------------------------- import_rawdata, as a whole
\* What one import_rawdata call leaves: whether image_array was assigned and
\* with what, and the status text ("" when the label was not written).
\* kind "" is the empty path entry; alive_at_poll says the polling loop saw the
\* thread alive at least once.  A missing path ends in UnboundLocalError, a poll
\* with load_to = load_from in ZeroDivisionError: neither is caught.
import_outcome(kind, pycine, total, from_text, to_text, alive_at_poll) ==
    IF kind = ""
    THEN [assigned |-> FALSE, value |-> None, status |-> "Raw image data not found..."]
    ELSE IF ~IsInt(from_text) \/ ~IsInt(to_text)
    THEN [assigned |-> FALSE, value |-> None,
          status |-> "Entries for data image range invalid!"]
    ELSE IF kind = "missing"
    THEN [assigned |-> FALSE, value |-> None, status |-> ""]
    ELSE IF alive_at_poll /\ int(to_text) - int(from_text) = 0
    THEN [assigned |-> FALSE, value |-> None, status |-> "Loading ..."]
    ELSE [assigned |-> TRUE,
          value |-> loader_return(kind, pycine, total, int(from_text), int(to_text)),
          status |-> "loaded!"]

\* the outcomes over every path, source length, range entry and schedule
ImportOutcomes ==
    {import_outcome(kind, pycine, total, from_text, to_text, alive_at_poll) :
        kind \in SourceKinds \cup {""}, pycine \in BOOLEAN, total \in 1..MaxFrames,
        from_text \in EntryValues, to_text \in EntryValues, alive_at_poll \in BOOLEAN}

ImportFrame == <<displayed_array, pre_processing_value, neighbour_order_value,
                 current_image_number, number_of_images, frames_read, play_state,
                 loop_pending, saveVars, exportVars, callVars, pixelVars, prepVars,
                 pipeVars, displayed_ops>>

import_rawdata(outcome) ==
    /\ image_array' = IF outcome.assigned THEN outcome.value ELSE image_array
    /\ array_shape' = IF outcome.assigned THEN shape_of(outcome.value) ELSE array_shape
    /\ frame_ops' = IF outcome.assigned THEN FreshOps(outcome.value) ELSE frame_ops
    /\ shares' = IF outcome.assigned THEN FALSE ELSE shares
    /\ data_import_status' = IF outcome.status = "" THEN data_import_status
                             ELSE outcome.status
    /\ UNCHANGED <<ImportFrame, loadVars>>

\* ------------------------------------- import_rawdata and its loader thread
\* mutant: the thread counts as dead as soon as the loader has entered its loop
is_alive_until_loop(pc) == pc = "started"

\* Thread.is_alive: from start() until run() has returned
is_alive(pc) == pc \in {"started", "loop"}

\* Thread.join returns once the thread is no longer alive
joined(pc) == ~is_alive(pc)

\* mutant: the progress of the first frame is not counted
counter_append_late(list, i) == IF i = 0 THEN list ELSE Append(list, i)

\* counter.append(i)
counter_append(list, i) == Append(list, i)

\* import_rawdata up to the polling loop.  The thread of a call that left with
\* ZeroDivisionError shares nothing with a later call: it is let to end before
\* the next import starts.
import_start(kind, from_text, to_text) ==
    /\ imp_pc = "idle"
    /\ ~is_alive(thread_pc)
    /\ IF kind = ""
       THEN /\ data_import_status' = "Raw image data not found..."
            /\ UNCHANGED <<loadVars>>
       ELSE IF ~IsInt(from_text) \/ ~IsInt(to_text)
       THEN /\ data_import_status' = "Entries for data image range invalid!"
            /\ UNCHANGED <<loadVars>>
       ELSE IF kind = "missing"
       THEN UNCHANGED <<data_import_status, loadVars>>
       ELSE /\ imp_count' = int(to_text) - int(from_text)
            /\ counter' = <<1>>
            /\ thread_args' = [kind |-> kind, start |-> int(from_text),
                               end |-> int(to_text)]
            /\ thread_return' = None
            /\ thread_raised' = FALSE
            /\ thread_pc' = "started"
            /\ total_image_count' = 0
            /\ start_image' = int(from_text)
            /\ end_image' = int(to_text)
            /\ image_stack' = <<>>
            /\ stack_frames' = 0
            /\ loop_i' = 0
            /\ loop_half' = 0
            /\ data_import_status' = "Loading ..."
            /\ imp_pc' = "poll"
    /\ UNCHANGED <<image_array, seriesVars, shares, ImportFrame>>

\* one pass of the polling loop while the thread is alive: the progress is
\* 100 * len(counter) / number_of_images, ZeroDivisionError ends the call
import_poll ==
    /\ imp_pc = "poll"
    /\ is_alive(thread_pc)
    /\ imp_pc' = IF imp_count = 0 THEN "idle" ELSE "poll"
    /\ UNCHANGED <<image_array, seriesVars, shares, data_import_status, imp_count, threadVars,
                   ImportFrame>>

\* the polling loop is left, join() returns _return, the series is replaced;
\* the call returns and its locals, the thread among them, are gone
import_join ==
    /\ imp_pc = "poll"
    /\ ~is_alive(thread_pc)
    /\ joined(thread_pc)
    /\ image_array' = thread_return
    /\ array_shape' = shape_of(thread_return)
    /\ frame_ops' = FreshOps(thread_return)
    /\ shares' = FALSE
    /\ data_import_status' = "loaded!"
    /\ imp_pc' = "idle"
    /\ imp_count' = 0
    /\ counter' = <<1>>
    /\ thread_pc' = "none"
    /\ thread_args' = [kind |-> "", start |-> 0, end |-> 0]
    /\ thread_return' = None
    /\ thread_raised' = FALSE
    /\ total_image_count' = 0
    /\ start_image' = 0
    /\ end_image' = 0
    /\ image_stack' = <<>>
    /\ stack_frames' = 0
    /\ loop_i' = 0
    /\ loop_half' = 0
    /\ UNCHANGED ImportFrame

ThreadFrame == <<image_array, seriesVars, shares, data_import_status, importVars, thread_args,
                 ImportFrame>>

\* run() ends: _return is what the loader returned, None if it raised
ThreadEnds(value, raised) ==
    /\ thread_return' = value
    /\ thread_raised' = raised
    /\ thread_pc' = "done"

\* the loader from its first line to the start of its loop; pycine says whether
\* the pycine package can be imported, total how many frames the source holds
thread_begin(pycine, total) ==
    /\ thread_pc = "started"
    /\ CASE thread_args.kind = "npy" ->
              /\ total_image_count' = total
              /\ image_stack' = Frames(0, total - 1)
              /\ stack_frames' = total
              /\ ThreadEnds(Frames(0, total - 1), FALSE)
              /\ UNCHANGED <<start_image, end_image>>
         [] thread_args.kind = "cine" /\ pycine ->
              LET last == cine_end_image(end_image, total)
                  first == cine_start_image(start_image, last)
              IN /\ total_image_count' = total
                 /\ end_image' = last
                 /\ start_image' = first
                 /\ stack_frames' = last - first + 1
                 /\ thread_pc' = "loop"
                 /\ UNCHANGED <<image_stack, thread_return, thread_raised>>
         [] thread_args.kind = "dir" ->
              LET last == images_end_image(end_image, total)
              IN /\ total_image_count' = total
                 /\ end_image' = last
                 /\ IF start_image >= total \/ last - start_image + 1 < 0
                    THEN /\ ThreadEnds(None, TRUE)
                         /\ UNCHANGED <<image_stack, stack_frames>>
                    ELSE /\ stack_frames' = last - start_image + 1
                         /\ thread_pc' = "loop"
                         /\ UNCHANGED <<image_stack, thread_return, thread_raised>>
                 /\ UNCHANGED start_image
         [] OTHER ->
              /\ ThreadEnds(None, FALSE)
              /\ UNCHANGED <<total_image_count, start_image, end_image, image_stack,
                             stack_frames>>
    /\ UNCHANGED <<counter, loop_i, loop_half, ThreadFrame>>

\* the first statement of a loop iteration: load_from_file appends to the
\* counter, load_from_images reads the frame
thread_loop_first ==
    /\ thread_pc = "loop"
    /\ loop_i < stack_frames
    /\ loop_half = 0
    /\ IF thread_args.kind = "cine"
       THEN /\ counter' = counter_append(counter, loop_i)
            /\ UNCHANGED image_stack
       ELSE /\ image_stack' = Append(image_stack, start_image + loop_i)
            /\ UNCHANGED counter
    /\ loop_half' = 1
    /\ UNCHANGED <<thread_pc, thread_return, thread_raised, total_image_count,
                   start_image, end_image, stack_frames, loop_i, ThreadFrame>>

\* the second statement: load_from_file stores the frame, load_from_images
\* appends to the counter
thread_loop_second ==
    /\ thread_pc = "loop"
    /\ loop_half = 1
    /\ IF thread_args.kind = "cine"
       THEN /\ image_stack' = Append(image_stack, start_image + loop_i)
            /\ UNCHANGED counter
       ELSE /\ counter' = counter_append(counter, loop_i)
            /\ UNCHANGED image_stack
    /\ loop_half' = 0
    /\ loop_i' = loop_i + 1
    /\ UNCHANGED <<thread_pc, thread_return, thread_raised, total_image_count,
                   start_image, end_image, stack_frames, ThreadFrame>>

\* after the loop: np.min raises on a stack without frames, else the stack is returned
thread_end ==
    /\ thread_pc = "loop"
    /\ loop_i = stack_frames
    /\ loop_half = 0
    /\ IF stack_frames = 0
       THEN ThreadEnds(None, TRUE)
       ELSE ThreadEnds(image_stack, FALSE)
    /\ UNCHANGED <<counter, total_image_count, start_image, end_image, image_stack,
                   stack_frames, loop_i, loop_half, ThreadFrame>>

\* ---------------------------------------------------------------- update_gui
update_gui ==
    /\ displayed_array' = image_array
    /\ displayed_ops' = frame_ops
    /\ shares' = TRUE
    /\ current_image_number' = current_image_number_default
    /\ IF image_array = None
       THEN /\ NoSeries
            /\ UNCHANGED <<number_of_images, save_to_value>>
       ELSE LET n == effective_number_of_images(pre_processing_value, shape2(image_array),
                                                neighbour_order_value)
            IN /\ number_of_images' = n
               /\ save_to_value' = scale_save_to_value(n)
               /\ Redraw(image_array, pre_processing_value, current_image_number_default,
                         neighbour_order_value)
    /\ UNCHANGED <<image_array, pre_processing_value, neighbour_order_value, play_state,
                   loop_pending, data_import_status, save_from, save_to, save_from_value,
                   exportVars, loadVars, callVars, pixelVars, seriesVars, prepVars,
                   pipeVars>>

\* ------------------------------------------------------------------ exports
\* verify_export_range: <<save_from, save_to>> from the two entries
verify_export_range(from_text, to_text, n) ==
    IF /\ IsInt(from_text)
       /\ IsInt(to_text)
       /\ ~ \/ ~(0 <= int(from_text) /\ int(from_text) < int(to_text))
            \/ ~(int(from_text) <= int(to_text) /\ int(to_text) < n)
    THEN <<int(from_text), int(to_text)>>
    ELSE <<0, n - 1>>

\* the last frame of the export loop: range(save_from, save_to + 1) for the image
\* and video sinks, range(save_from, save_to) for the packed array
loop_last(kind, to) == IF kind = "binary" THEN to - 1 ELSE to
LoopLength == Max(loop_last(export_kind, save_to) - save_from + 1, 0)

\* frames np.zeros allocates for baked_array
baked_frames(from, to) == to - from

\* the handler starts its loop: nothing of the former export is kept
StartLoop(kind) ==
    /\ export_pc' = "loop"
    /\ export_kind' = kind
    /\ export_index' = 0
    /\ exported' = <<>>
    /\ export_error' = "none"

\* what the export handlers never touch
ExportFrame == <<image_array, displayed_array, pre_processing_value,
                 neighbour_order_value, number_of_images, play_state, loop_pending,
                 data_import_status, loadVars, restVars>>

set_image_export_all ==
    /\ export_pc = "idle"
    /\ save_from' = 0
    /\ save_to' = number_of_images - 1
    /\ save_from_value' = <<0>>
    /\ save_to_value' = <<number_of_images - 1>>
    /\ current_image_number' = 0
    /\ last_image' = 0
    /\ index_at_request' = current_image_number
    /\ StartLoop("all")
    /\ UNCHANGED <<ExportFrame, frames_read, baked_length, progressbar>>

\* the three handlers that validate the range take the entries as the user left
\* them: retyped (from_text, to_text) or as they stand
set_image_export_range(from_text, to_text) ==
    /\ export_pc = "idle"
    /\ save_from_value' = from_text
    /\ save_to_value' = to_text
    /\ LET range == verify_export_range(from_text, to_text, number_of_images)
       IN /\ save_from' = range[1]
          /\ save_to' = range[2]
          /\ current_image_number' = range[1]
          /\ last_image' = range[1]
    /\ index_at_request' = current_image_number
    /\ StartLoop("range")
    /\ UNCHANGED <<ExportFrame, frames_read, baked_length, progressbar>>

export_video(from_text, to_text) ==
    /\ export_pc = "idle"
    /\ last_image' = current_image_number
    /\ save_from_value' = from_text
    /\ save_to_value' = to_text
    /\ LET range == verify_export_range(from_text, to_text, number_of_images)
       IN /\ save_from' = range[1]
          /\ save_to' = range[2]
    /\ index_at_request' = current_image_number
    /\ StartLoop("video")
    /\ UNCHANGED <<ExportFrame, current_image_number, frames_read, baked_length,
                   progressbar>>

export_np_binary(from_text, to_text) ==
    /\ export_pc = "idle"
    /\ index_at_request' = current_image_number
    /\ save_from_value' = from_text
    /\ save_to_value' = to_text
    /\ LET range == verify_export_range(from_text, to_text, number_of_images)
       IN /\ save_from' = range[1]
          /\ save_to' = range[2]
          /\ IF baked_frames(range[1], range[2]) < 0
             THEN /\ export_pc' = "failed"
                  /\ export_error' = "ValueError"
                  /\ export_kind' = "binary"
                  /\ UNCHANGED <<export_index, exported, baked_length>>
             ELSE /\ StartLoop("binary")
                  /\ baked_length' = baked_frames(range[1], range[2])
    /\ UNCHANGED <<ExportFrame, current_image_number, frames_read, last_image,
                   progressbar>>

\* one iteration of the export loop: progress, frame index, pipeline, sink
export_loop_step ==
    /\ export_pc = "loop"
    /\ export_index < LoopLength
    /\ LET i == save_from + export_index
           error == PreProcessingError(displayed_array, pre_processing_value, i,
                                       neighbour_order_value)
       IN IF save_to - save_from = 0
          THEN /\ export_pc' = "failed"
               /\ export_error' = "ZeroDivisionError"
               /\ UNCHANGED <<progressbar, current_image_number, frames_read,
                              exported, export_index>>
          ELSE /\ progressbar' = [num |-> 100 * export_index, den |-> save_to - save_from]
               /\ current_image_number' = i
               /\ Redraw(displayed_array, pre_processing_value, i, neighbour_order_value)
               /\ IF error # "none"
                  THEN /\ export_pc' = "failed"
                       /\ export_error' = error
                       /\ UNCHANGED <<exported, export_index>>
                  ELSE /\ exported' = Append(exported, i)
                       /\ export_index' = export_index + 1
                       /\ UNCHANGED <<export_pc, export_error>>
    /\ UNCHANGED <<ExportFrame, saveVars, export_kind, last_image, index_at_request,
                   baked_length>>

\* the index the handler leaves once its loop is over
restored_index(kind, current, last) == IF kind = "binary" THEN current ELSE last

\* the loop is over: progress 100, the index restored, the handler returns
export_finish ==
    /\ export_pc = "loop"
    /\ export_index = LoopLength
    /\ progressbar' = [num |-> 100, den |-> 1]
    /\ current_image_number' = restored_index(export_kind, current_image_number, last_image)
    /\ export_pc' = "idle"
    /\ export_kind' = "none"
    /\ export_index' = 0
    /\ last_image' = 0
    /\ index_at_request' = 0
    /\ exported' = <<>>
    /\ baked_length' = 0
    /\ UNCHANGED <<ExportFrame, saveVars, frames_read, export_error>>

\* the exception leaves the handler: Tk reports it and the main loop goes on
export_abort ==
    /\ export_pc = "failed"
    /\ export_pc' = "idle"
    /\ export_kind' = "none"
    /\ export_index' = 0
    /\ last_image' = 0
    /\ index_at_request' = 0
    /\ exported' = <<>>
    /\ baked_length' = 0
    /\ export_error' = "none"
    /\ UNCHANGED <<ExportFrame, saveVars, current_image_number, frames_read, progressbar>>

\* ------------------------------------------------- pipeline and its buffers
\* A buffer is either memory of the series (a view of one of its frames) or
\* memory of the pipeline's own.  The series meant is the displayed one; what
\* is written into it is written into the held one where the two share memory.
view_of(j) == [owner |-> "series", frame |-> j]
\* (np.copy as it would be without copying)
np_copy_view(buffer) == buffer
np_copy(buffer) == [owner |-> "pipeline", frame |-> buffer.frame]
\* a - b, a / b, np.where(...), nielsen_linear_comb(...): a new array
computed(a, b) == [owner |-> "pipeline", frame |-> a.frame]

\* apply_pre_processing: the buffer it returns for mode, frame index i, order k
pre_processed(mode, i, k) ==
    CASE mode = 1 -> computed(np_copy(view_of(i)), np_copy(view_of(0)))
      [] mode = 2 -> computed(np_copy(view_of(i + k)), np_copy(view_of(i)))
      [] mode = 3 -> computed(np_copy(view_of(i)), np_copy(view_of(0)))
      [] mode = 4 -> computed(np_copy(view_of(i + k)), np_copy(view_of(i)))
      [] mode = 5 -> computed(np_copy(view_of(i)), np_copy(view_of(i + k)))
      [] OTHER -> np_copy(view_of(i))

\* clip_image assigns clip_min and clip_max into its argument in place: the
\* frames of the series it writes
clip_image_writes(buffer) == IF buffer.owner = "series" THEN {buffer.frame} ELSE {}

\* recalculate_image: the frames of the series written by one evaluation.
\* Only the clip stage writes into the buffer it is given; gaussian,
\* convert_image, the denoiser, CLAHE, resize and zoom return new arrays.
recalculate_image_writes(array, mode, i, k, clip) ==
    IF PreProcessingError(array, mode, i, k) # "none" THEN {}
    ELSE IF clip = 1 THEN clip_image_writes(pre_processed(mode, i, k)) ELSE {}

Written(ops, frames) ==
    [j \in 1..Len(ops) |-> IF j - 1 \in frames THEN Append(ops[j], "clip") ELSE ops[j]]

\* the Clipping checkbutton: the variable flips, then redraw_image evaluates
\* the pipeline for the current frame
clipping_checkbutton ==
    /\ clipping_check' = 1 - clipping_check
    /\ Redraw(displayed_array, pre_processing_value, current_image_number,
              neighbour_order_value)
    /\ LET writes == recalculate_image_writes(displayed_array, pre_processing_value,
                                              current_image_number, neighbour_order_value,
                                              1 - clipping_check)
       IN /\ displayed_ops' = Written(displayed_ops, writes)
          /\ frame_ops' = IF shares THEN Written(frame_ops, writes) ELSE frame_ops
    /\ UNCHANGED <<image_array, displayed_array, pre_processing_value,
                   neighbour_order_value, current_image_number, number_of_images,
                   play_state, loop_pending, data_import_status, saveVars, exportVars,
                   loadVars, callVars, pixelVars, array_shape, prepVars, shares>>

\* bake_settings_to_array: np.zeros for number_of_images frames, then the
\* pipeline for every i in range(number_of_images); the first frame that
\* fails ends the loop with the index left on it.
baked_until(n) ==
    LET failing == {i \in 0..(n - 1) :
                       PreProcessingError(displayed_array, pre_processing_value, i,
                                          neighbour_order_value) # "none"}
    IN IF failing = {} THEN n - 1
       ELSE CHOOSE i \in failing : \A other \in failing : i <= other

bake_settings_to_array ==
    /\ IF number_of_images <= 0
       THEN UNCHANGED <<current_image_number, frames_read, frame_ops, displayed_ops>>
       ELSE LET last == baked_until(number_of_images)
            IN /\ current_image_number' = last
               /\ Redraw(displayed_array, pre_processing_value, last,
                         neighbour_order_value)
               /\ LET writes == UNION {recalculate_image_writes(displayed_array,
                                            pre_processing_value, i, neighbour_order_value,
                                            clipping_check) : i \in 0..last}
                  IN /\ displayed_ops' = Written(displayed_ops, writes)
                     /\ frame_ops' = IF shares THEN Written(frame_ops, writes)
                                     ELSE frame_ops
    /\ UNCHANGED <<image_array, displayed_array, pre_processing_value,
                   neighbour_order_value, number_of_images, play_state, loop_pending,
                   data_import_status, saveVars, exportVars, loadVars, callVars, pixelVars,
                   array_shape, prepVars, pipeVars, shares>>

\* ------------------------------------------------ recalculate_image, stages
\* What recalculate_image does to the frame apply_pre_processing returned, as
\* the names of the calls made in turn; "convert" is convert_image to uint16.
clip_stage(check) == IF check = 1 THEN <<"clip">> ELSE <<>>
gaussian_stage(check) == IF check = 1 THEN <<"gaussian">> ELSE <<>>
nlmeans_stage(check) == IF check = 1 THEN <<"convert", "nlmeans">> ELSE <<>>
\* (first the variant that converts whether or not the denoiser did)
clahe_stage_converting(check, nlmeans) ==
    IF check = 1 THEN <<"convert", "clahe">> ELSE <<>>
clahe_stage(check, nlmeans) ==
    IF check = 1
    THEN (IF nlmeans # 1 THEN <<"convert">> ELSE <<>>) \o <<"clahe">>
    ELSE <<>>
resize_stage(resize_value) == IF resize_value # QInt(1) THEN <<"resize">> ELSE <<>>
zoom_stage(zoom_value) == IF zoom_value # QInt(1) THEN <<"zoom">> ELSE <<>>

\* (first the variant that smooths before it clips)
stage_calls_smooth_first(clip, gaussian, nlmeans, clahe, resize_value, zoom_value) ==
    gaussian_stage(gaussian) \o clip_stage(clip) \o nlmeans_stage(nlmeans)
        \o clahe_stage(clahe, nlmeans) \o resize_stage(resize_value) \o zoom_stage(zoom_value)
stage_calls(clip, gaussian, nlmeans, clahe, resize_value, zoom_value) ==
    clip_stage(clip) \o gaussian_stage(gaussian) \o nlmeans_stage(nlmeans)
        \o clahe_stage(clahe, nlmeans) \o resize_stage(resize_value) \o zoom_stage(zoom_value)

\* every call is image_array = f(image_array): it reads what the call before
\* it returned, the first one what apply_pre_processing returned
chained(calls) ==
    [n \in 1..Len(calls) |->
        [stage |-> calls[n],
         reads |-> IF n = 1 THEN "apply_pre_processing" ELSE calls[n - 1]]]

Factors == {Q(1, 2), QInt(1), QInt(2)}       \* resize and zoom factors tried

recalculate_image(clip, gaussian, nlmeans, clahe, resize_value, zoom_value) ==
    /\ pixel_op = ""
    /\ pixel_op' = "recalculate_image"
    /\ pixel_in' = [clip |-> clip, gaussian |-> gaussian, nlmeans |-> nlmeans,
                    clahe |-> clahe, resize_value |-> resize_value,
                    zoom_value |-> zoom_value]
    /\ pixel_out' = chained(stage_calls(clip, gaussian, nlmeans, clahe, resize_value,
                                       zoom_value))
    /\ UNCHANGED PixelFrame

\* ---------------------------------------------------------- denoise strength
\* The h slider runs from 0 to 20 in steps of 0.1: its positions in tenths.
SliderTenths == 0..200
\* int(float(e) / 100 * 65535): Python's int() cuts towards zero
nlmeans_h(tenths) == Trunc(Q(tenths * 65535, 10 * 100))

\* adjust_nlmeans_h_value: the slider's callback
adjust_nlmeans_h_value(tenths) ==
    /\ pixel_op = ""
    /\ pixel_op' = "adjust_nlmeans_h_value"
    /\ pixel_in' = [tenths |-> tenths]
    /\ pixel_out' = <<nlmeans_h(tenths)>>
    /\ UNCHANGED PixelFrame

\* ------------------------------------------------- geometric preparation
\* The handlers below leave everything but the series, the references, the
\* corners, the tilt and the status label alone.
PrepFrame == <<displayed_array, pre_processing_value, neighbour_order_value,
               current_image_number, number_of_images, frames_read, play_state,
               loop_pending, saveVars, exportVars, loadVars, callVars, pixelVars,
               pipeVars, shares>>

\* callback_left: the click, converted to image coordinates, is stored as the
\* top-left corner without a check against the frame or the other corner.
callback_left(x, y) ==
    /\ x_left' = x
    /\ y_top' = y
    /\ prep_error' = "none"
    /\ UNCHANGED <<image_array, seriesVars, displayed_ops, data_import_status, refVars, x_right, y_bot,
                   tiltVars, PrepFrame>>

\* callback_right: likewise for the bottom-right corner.
callback_right(x, y) ==
    /\ x_right' = x
    /\ y_bot' = y
    /\ prep_error' = "none"
    /\ UNCHANGED <<image_array, seriesVars, displayed_ops, data_import_status, refVars, x_left, y_top,
                   tiltVars, PrepFrame>>

\* callback_angle: the first click stores a point; the second one computes
\* tan = (y1 - y2) / (x1 - x2) and the tilt arctan(tan) in degrees, which is
\* zero exactly when the tangent is.  x1 = x2 divides by zero: the handler
\* ends there with self.clicked still set.
callback_angle(x, y) ==
    /\ IF ~clicked
       THEN /\ angle_coordinates' = <<x, y>>
            /\ clicked' = TRUE
            /\ prep_error' = "none"
            /\ UNCHANGED image_tilt
       ELSE IF angle_coordinates[1] = x
       THEN /\ prep_error' = "ZeroDivisionError"
            /\ UNCHANGED <<image_tilt, clicked, angle_coordinates>>
       ELSE /\ image_tilt' = Q(angle_coordinates[2] - y, angle_coordinates[1] - x)
            /\ clicked' = FALSE
            /\ angle_coordinates' = <<>>
            /\ prep_error' = "none"
    /\ UNCHANGED <<image_array, seriesVars, displayed_ops, data_import_status, refVars, cropVars, PrepFrame>>

\* one more operation recorded on every frame of the series
Applied(ops, names) == [j \in 1..Len(ops) |-> ops[j] \o names]
History == IF frame_ops = <<>> THEN <<>> ELSE frame_ops[1]

\* apply_crop_data: with a tilt, every frame of the series is rotated in
\* place; then the series becomes the slice [y_top:y_bot, x_left:x_right, :],
\* with Python's slice rules for negative and out-of-range corners.
apply_crop_data ==
    /\ displayed_ops' = IF shares /\ image_array # None /\ image_tilt # QInt(0)
                        THEN Applied(displayed_ops, <<"rotate">>) ELSE displayed_ops
    /\ Len(History) + (IF image_tilt # QInt(0) THEN 2 ELSE 1) <= MaxOps
    /\ IF image_array = None
       THEN /\ prep_error' = "AttributeError"
            /\ data_import_status' = "Cropping/rotating data array..."
            /\ UNCHANGED seriesVars
       ELSE /\ prep_error' = "none"
            /\ data_import_status' = "Cropping/rotating finished! Reload GUI to show!"
            /\ frame_ops' = Applied(frame_ops, IF image_tilt # QInt(0)
                                               THEN <<"rotate", "crop">> ELSE <<"crop">>)
            /\ array_shape' = <<SliceLen(y_top, y_bot, array_shape[1]),
                                SliceLen(x_left, x_right, array_shape[2])>>
    /\ UNCHANGED <<image_array, refVars, cropVars, tiltVars, PrepFrame>>

\* ------------------------------------------------- flat and dark references
Zero == <<0>>                  \* the integer 0 the averager returns for an unknown type
IsArray(reference) == Len(reference) = 2
RefShapes == {<<1, 1>>, SourceShape, <<SourceHeight, SourceWidth + 1>>}

\* A reference file: whether a path is entered, what the averager does with it
\* (its mean frame, the integer 0, an exception), and the shape of its frames.
ReferenceLoads ==
    {[given |-> given, tag |-> made.outcome.tag, shape |-> frame_shape] :
        given \in BOOLEAN, made \in SeriesAverageCalls, frame_shape \in RefShapes}

\* import_flat_dark: without a flat path nothing is loaded.  Otherwise
\* self.flat is the averager's result; without a dark path self.dark is
\* np.zeros(self.flat.shape), else the averager's result for the dark file.
\* An exception of the averager ends the handler at that assignment.
flat_dark_outcome(flat_load, dark_load) ==
    LET outcome(flat_set, flat_value, dark_set, dark_value, status, error) ==
            [flat_set |-> flat_set, flat |-> flat_value, dark_set |-> dark_set,
             dark |-> dark_value, status |-> status, error |-> error]
        flat_value == IF flat_load.tag = "value" THEN flat_load.shape ELSE Zero
        dark_value == IF dark_load.tag = "value" THEN dark_load.shape ELSE Zero
    IN IF ~flat_load.given
       THEN outcome(FALSE, None, FALSE, None, "Flat field data not found...", "none")
       ELSE IF flat_load.tag \notin {"value", "zero"}
       THEN outcome(FALSE, None, FALSE, None, "Importing flat field data...", "AxisError")
       ELSE IF ~dark_load.given
       THEN IF flat_load.tag = "zero"
            THEN outcome(TRUE, flat_value, FALSE, None, "Importing flat field data...",
                         "AttributeError")
            ELSE outcome(TRUE, flat_value, TRUE, flat_value,
                         "Only flat field data imported!", "none")
       ELSE IF dark_load.tag \notin {"value", "zero"}
       THEN outcome(TRUE, flat_value, FALSE, None, "Importing dark field data...",
                    "AxisError")
       ELSE outcome(TRUE, flat_value, TRUE, dark_value,
                    "Flat and dark field data imported!", "none")

FlatDarkOutcomes ==
    {flat_dark_outcome(flat_load, dark_load) :
        flat_load \in ReferenceLoads, dark_load \in ReferenceLoads}

import_flat_dark(outcome) ==
    /\ flat' = IF outcome.flat_set THEN outcome.flat ELSE flat
    /\ dark' = IF outcome.dark_set THEN outcome.dark ELSE dark
    /\ data_import_status' = outcome.status
    /\ prep_error' = outcome.error
    /\ UNCHANGED <<image_array, seriesVars, displayed_ops, cropVars, tiltVars, PrepFrame>>

\* numpy broadcasting of two operands to the shape of the first: every
\* dimension of the second is that of the first, or 1; a scalar always fits.
broadcasts(shape, other) ==
    \/ other = Zero
    \/ /\ IsArray(other)
       /\ \A d \in 1..2 : other[d] = shape[d] \/ other[d] = 1

\* the references and the series pass every check of the correction
correction_applies ==
    /\ flat # None /\ dark # None
    /\ image_array # None /\ flat # Zero
    /\ flat = array_shape
    /\ broadcasts(flat, dark)

\* apply_flat_dark_correction: refuses when a reference is None or when the
\* flat's shape is not the series'; the dark's shape is not looked at, so
\* flat - dark and frame - dark either broadcast or raise ValueError.
apply_flat_dark_correction ==
    /\ displayed_ops' = IF shares /\ correction_applies
                        THEN Applied(displayed_ops, <<"correct">>) ELSE displayed_ops
    /\ Len(History) + 1 <= MaxOps
    /\ IF flat = None \/ dark = None
       THEN /\ data_import_status' = "Error: No flat/dark data loaded!"
            /\ prep_error' = "none"
            /\ UNCHANGED seriesVars
       ELSE IF image_array = None \/ flat = Zero
       THEN /\ prep_error' = "AttributeError"
            /\ UNCHANGED <<seriesVars, data_import_status>>
       ELSE IF flat # array_shape
       THEN /\ data_import_status' =
                   "Error: Must perform flat/dark correction before cropping!"
            /\ prep_error' = "none"
            /\ UNCHANGED seriesVars
       ELSE IF ~broadcasts(flat, dark)
       THEN /\ data_import_status' = "Performing flat/dark field correction..."
            /\ prep_error' = "ValueError"
            /\ UNCHANGED seriesVars
       ELSE /\ data_import_status' = "Flat/dark correction completed!"
            /\ prep_error' = "none"
            /\ frame_ops' = Applied(frame_ops, <<"correct">>)
            /\ UNCHANGED array_shape
    /\ UNCHANGED <<image_array, refVars, cropVars, tiltVars, PrepFrame>>

\* ------------------------------------------------------------ specification
Select ==
    \/ \E e \in Modes : select_pre_processing_mode(e)
    \/ \E e \in Orders : select_neighbour_order(e)
    \/ \E e \in 0..MaxFrames : display_next_image(e)
    \/ previous_frame
    \/ next_frame

Import == \E outcome \in ImportOutcomes : import_rawdata(outcome)

Next ==
    \/ Select
    \/ Import
    \/ update_gui

Spec == Init /\ [][Next]_vars

NextPlay ==
    \/ Select
    \/ start_play_video
    \/ loop_play

SpecPlay == Init /\ [][NextPlay]_vars

\* the selection callbacks run between exports, never during one
NextExport ==
    \/ export_pc = "idle" /\ \E e \in Modes : select_pre_processing_mode(e)
    \/ export_pc = "idle" /\ \E e \in Orders : select_neighbour_order(e)
    \/ export_pc = "idle" /\ \E e \in 0..MaxFrames : display_next_image(e)
    \/ set_image_export_all
    \/ \E from_text \in EntryValues \cup {save_from_value},
          to_text \in EntryValues \cup {save_to_value} :
          \/ set_image_export_range(from_text, to_text)
          \/ export_video(from_text, to_text)
          \/ export_np_binary(from_text, to_text)
    \/ export_loop_step
    \/ export_finish
    \/ export_abort

SpecExport == Init /\ [][NextExport]_vars

NextLoad ==
    \/ \E kind \in SourceKinds \cup {""}, from_text, to_text \in EntryValues :
          import_start(kind, from_text, to_text)
    \/ import_poll
    \/ import_join
    \/ \E pycine \in BOOLEAN, total \in 1..MaxFrames : thread_begin(pycine, total)
    \/ thread_loop_first
    \/ thread_loop_second
    \/ thread_end

SpecLoad == Init /\ [][NextLoad]_vars

\* The points clicked to measure the tilt: level, and rising by 45 degrees.
TiltClicks == {<<0, 0>>, <<1, 0>>, <<1, 1>>}

\* Import, references, crop button and correction button in any order; the
\* corners and the tilt stay where the constructor put them.
NextCorrect ==
    \/ \E outcome \in ImportOutcomes : import_rawdata(outcome)
    \/ \E outcome \in FlatDarkOutcomes : import_flat_dark(outcome)
    \/ apply_crop_data
    \/ apply_flat_dark_correction

SpecCorrect == Init /\ [][NextCorrect]_vars

\* The data tab with its reload button: imports, corrections and crops, and
\* "Update GUI with new data!" between them.  A series is imported over the one
\* on display, and the references are imported where none are held yet.
NextDisplay ==
    \/ \E outcome \in ImportOutcomes : shares /\ import_rawdata(outcome)
    \/ \E outcome \in FlatDarkOutcomes : flat = None /\ dark = None /\ import_flat_dark(outcome)
    \/ apply_crop_data
    \/ apply_flat_dark_correction
    \/ update_gui

SpecDisplay == Init /\ [][NextDisplay]_vars

\* The corners are clicked on the series as loaded, anywhere on the canvas
\* around the frame; then the crop button is pressed.
ClickX == (0 - 1)..(SourceWidth + 1)
ClickY == (0 - 1)..(SourceHeight + 1)
AsLoaded == frame_ops = FreshOps(image_array)

NextCrop ==
    \/ \E x \in ClickX, y \in ClickY : AsLoaded /\ callback_left(x, y)
    \/ \E x \in ClickX, y \in ClickY : AsLoaded /\ callback_right(x, y)
    \/ \E point \in TiltClicks : AsLoaded /\ callback_angle(point[1], point[2])
    \/ apply_crop_data

SpecCrop == Init /\ [][NextCrop]_vars

NextCalls ==
    \/ \E made \in LoadFromFileCalls : call_load_from_file(made)
    \/ \E made \in LoadFromImagesCalls : call_load_from_images(made)
    \/ \E made \in SeriesAverageCalls : call_calculate_series_average(made)

SpecCalls == Init /\ [][NextCalls]_vars

NextPixel ==
    \/ pixel_op = "" /\ \E dtype \in {"uint8", "float32"}, wraps \in BOOLEAN,
          column \in ColumnsOf(SmallSamples),
          flat_sample \in SmallSamples, dark_sample \in SmallSamples :
          apply_correction_loop(dtype, wraps, column, flat_sample, dark_sample)
    \/ pixel_op = "" /\ \E mode \in {3, 4}, column \in ColumnsOf(SmallSamples), i \in 0..(MaxFrames - 1),
          order \in Orders :
           apply_ratio(mode, column, i, order)

SpecPixel == Init /\ [][NextPixel]_vars

NextNielsen ==
    pixel_op = "" /\ \E dtype \in StackTypes, column \in ColumnsOf(NielsenSamples), start_index \in {0, 1},
       frame_count \in Orders, q \in Weights :
        nielsen_sums(dtype, column, start_index, frame_count, q)

SpecNielsen == Init /\ [][NextNielsen]_vars

NextConvert ==
    pixel_op = "" /\ \E image \in Images, target \in Targets, given_min \in Limits,
                        given_max \in Limits, wraps \in BOOLEAN :
        convert_image(image, target, given_min, given_max, wraps)

SpecConvert == Init /\ [][NextConvert]_vars

NextPipeline ==
    \/ \E e \in Modes : select_pre_processing_mode(e)
    \/ \E e \in Orders : select_neighbour_order(e)
    \/ \E e \in 0..MaxFrames : display_next_image(e)
    \/ clipping_checkbutton
    \/ bake_settings_to_array

SpecPipeline == Init /\ [][NextPipeline]_vars

\* the two-frame and plain modes run with the sliders' default weights
NextMode ==
    \/ pixel_op = "" /\ \E dtype \in {"uint8", "float32"}, column \in ColumnsOf(SmallSamples),
                             mode \in (Modes \ {LastMode}) \cup {LastMode + 1},
                             i \in 0..(MaxFrames - 1), k \in Orders :
           apply_pre_processing(dtype, column, mode, i, k, 1, 1)
    \/ pixel_op = "" /\ \E dtype \in {"uint8", "float32"}, column \in ColumnsOf(SmallSamples),
                             i \in 0..(MaxFrames - 1), k \in Orders, d \in Weights,
                             q \in Weights :
           apply_pre_processing(dtype, column, LastMode, i, k, d, q)

SpecMode == Init /\ [][NextMode]_vars

NextStages ==
    pixel_op = "" /\ \E clip \in {0, 1}, gaussian \in {0, 1}, nlmeans \in {0, 1},
                         clahe \in {0, 1}, resize_value \in Factors, zoom_value \in Factors :
        recalculate_image(clip, gaussian, nlmeans, clahe, resize_value, zoom_value)

SpecStages == Init /\ [][NextStages]_vars

NextDenoise ==
    pixel_op = "" /\ \E tenths \in SliderTenths : adjust_nlmeans_h_value(tenths)

SpecDenoise == Init /\ [][NextDenoise]_vars

\* ================================================================== claims
TotalFrames == shape2(displayed_array)
HasSeries == displayed_array # None
LastFrame == TotalFrames - 1

\* C1: whenever a series is displayed, the exposed frame count is the series
\* length N in Standard, DeltaTotal and RatioTotal mode and N - k in
\* DeltaNeighbour, RatioNeighbour and NielsenCombo mode (k the neighbour order).
C1_ExposedCount ==
    HasSeries =>
        number_of_images = IF pre_processing_value \in NeighbourModes
                           THEN TotalFrames - neighbour_order_value
                           ELSE TotalFrames

\* an imported sub-range is displayed in a neighbour mode
C1_Witness ==
    /\ displayed_array = <<1>>
    /\ image_array = <<0, 1>>
    /\ pre_processing_value = 5
    /\ neighbour_order_value = 2
    /\ number_of_images = -1

\* C2: while the neighbour order stays below the series length, every step
\* (mode, order, slider, next, previous, playback) keeps the frame index within
\* 0..number_of_images - 1 and the frames the mode selection asks for within
\* 0..N - 1, and a mode or order change that leaves the prior index outside the
\* new exposed range puts the index back to 0.
OrderBelowLength == HasSeries /\ neighbour_order_value < TotalFrames
IndexInBounds ==
    /\ current_image_number \in 0..(number_of_images - 1)
    /\ frames_read # {}
    /\ frames_read \subseteq 0..LastFrame
C2_IndexInBounds ==
    /\ OrderBelowLength => IndexInBounds
    /\ [][(OrderBelowLength /\ IndexInBounds /\ OrderBelowLength') =>
            /\ IndexInBounds'
            /\ current_image_number >= number_of_images' =>
                   current_image_number' = current_image_number_default]_vars

\* the playback loop is running in Nielsen mode over a window of two frames
C2_Witness ==
    /\ OrderBelowLength
    /\ pre_processing_value = 5
    /\ play_state = TRUE
    /\ loop_pending = 1
    /\ frames_read = {0, 1}

\* C3 (as claimed): in a neighbour mode with order k >= N the frame index stays
\* within 0..N - 1 and no frame outside 0..N - 1 is asked for.
C3_NoValidFrames ==
    (HasSeries /\ pre_processing_value \in NeighbourModes
               /\ neighbour_order_value >= TotalFrames) =>
        /\ current_image_number \in 0..LastFrame
        /\ frames_read \subseteq 0..LastFrame

\* C4 (as claimed): once a handler has validated the export range, the range is
\* the one the entries ask for exactly when both entries are integers with
\* 0 <= from <= to <= number_of_images - 1 (from = to included), and the full
\* range 0..number_of_images - 1 otherwise.
RangeValidated == export_pc # "idle" /\ export_kind \in {"range", "video", "binary"}
C4_RangeValidation ==
    RangeValidated =>
        IF /\ IsInt(save_from_value)
           /\ IsInt(save_to_value)
           /\ 0 <= int(save_from_value)
           /\ int(save_from_value) <= int(save_to_value)
           /\ int(save_to_value) <= number_of_images - 1
        THEN save_from = int(save_from_value) /\ save_to = int(save_to_value)
        ELSE save_from = 0 /\ save_to = number_of_images - 1

\* C5 (as claimed): when the loop of an export is over, the sink has received
\* the frames save_from, save_from + 1, ..., save_to, each once and in order, and
\* the packed array was allocated save_to - save_from + 1 frames.
LoopOver == export_pc = "loop" /\ export_index = LoopLength
C5_SinksCoverRange ==
    LoopOver =>
        /\ exported = Frames(save_from, save_to)
        /\ export_kind = "binary" => baked_length = save_to - save_from + 1

\* C6 (as claimed): computing the progress of an export never fails, also for a
\* range of one frame, and the value reported lies within 0..100.
C6_ProgressNeverFails ==
    /\ export_error # "ZeroDivisionError"
    /\ 0 <= progressbar.num
    /\ progressbar.num <= 100 * progressbar.den

\* the loader ran over a range: a container with pycine at hand, or a directory
RangeLoadOver ==
    /\ thread_pc = "done"
    /\ thread_args.kind \in {"cine", "dir"}
    /\ total_image_count > 0

\* C7 (as claimed): both range loaders, asked for [start, end] in a source of
\* T frames, clamp end to T - 1 and then start to the clamped end, and return
\* exactly end' - start' + 1 frames, never fewer than one.
C7_RangeClamped ==
    RangeLoadOver =>
        LET last == Min(thread_args.end, total_image_count - 1)
            first == Min(thread_args.start, last)
        IN /\ thread_return = Frames(first, last)
           /\ Len(thread_return) = last - first + 1
           /\ Len(thread_return) >= 1

\* C8 (as claimed): while a load runs the counter never decreases, and when any
\* load completes it has grown by exactly the number of frames of the returned
\* series.
C8_CounterGrowth ==
    /\ [][is_alive(thread_pc) => Len(counter') >= Len(counter)]_vars
    /\ []((thread_pc = "done" /\ thread_return # None) =>
             Len(counter) - 1 = Len(thread_return))

\* C8 (amended): while a load runs the counter never decreases and grows by one
\* per frame read (the container loader counts a frame just before reading it,
\* the directory loader just after), so that a completed container or directory
\* load has grown it by exactly the number of frames returned; a binary-array
\* load returns the whole stored array and leaves the counter as it was.
C8_CounterGrowthByLoader ==
    /\ [][is_alive(thread_pc) => Len(counter') - Len(counter) \in {0, 1}]_vars
    /\ [](thread_pc = "loop" =>
             Len(counter) - 1 - Len(image_stack) =
                 IF thread_args.kind = "cine" THEN loop_half ELSE 0 - loop_half)
    /\ []((thread_pc = "done" /\ thread_return # None
              /\ thread_args.kind \in {"cine", "dir"}) =>
             Len(counter) - 1 = Len(thread_return))
    /\ []((thread_pc = "done" /\ thread_args.kind = "npy") =>
             /\ counter = <<1>>
             /\ thread_return = Frames(0, total_image_count - 1))

C8_Witness ==
    /\ thread_pc = "done"
    /\ thread_args = [kind |-> "cine", start |-> 1, end |-> 2]
    /\ counter = <<1, 0, 1>>
    /\ thread_return = <<1, 2>>

\* C9: image_array is replaced only by what join() returns from a thread that
\* has ended; while the thread is alive the series is left alone and the buffer
\* being filled changes only by the loader storing one more frame.
C9_AssignedAfterJoin ==
    [][/\ image_array' # image_array =>
            (thread_pc = "done" /\ image_array' = thread_return)
       /\ thread_pc \in {"started", "loop"} =>
            /\ image_array' = image_array
            /\ \/ image_stack' = image_stack
               \/ /\ Len(image_stack') = Len(image_stack) + 1
                  /\ SubSeq(image_stack', 1, Len(image_stack)) = image_stack
               \/ thread_pc = "started"]_vars

C9_Witness ==
    /\ imp_pc = "idle"
    /\ thread_pc = "none"
    /\ image_array = <<1, 2>>
    /\ data_import_status = "loaded!"

\* C10 (as claimed): a load that produced no series (the loader raised, the
\* format is not recognised, decoding is unavailable) never replaces the series
\* with an absent value and is never reported as loaded.
C10_FailedLoadKeepsSeries ==
    [][(imp_pc = "poll" /\ thread_pc = "done" /\ thread_return = None) =>
          (image_array' = image_array /\ data_import_status' # "loaded!")]_vars

\* the failure kind of a call by what is wrong with its source, "Success" when
\* nothing is, "" when more than one thing is or the range is at fault
\* the frames a ratio mode divides, as the claim names them
C16_Divisor == IF pixel_op = "ratio_total" THEN pixel_in.column[1]
               ELSE pixel_in.column[pixel_in.i + 1]
C16_Numerator == IF pixel_op = "ratio_total" THEN pixel_in.column[pixel_in.i + 1]
                 ELSE pixel_in.column[pixel_in.i + pixel_in.order + 1]

\* C16: in RatioTotal and RatioNeighbour mode a pixel whose divisor frame
\* (frame 0, resp. frame i) is 0 becomes exactly 1 whatever the numerator is;
\* every other pixel becomes the quotient.
C16_RatioMasked ==
    pixel_op \in {"ratio_total", "ratio_neighbour"} =>
        pixel_out = <<IF C16_Divisor = 0 THEN <<1, 1>>
                      ELSE Q(C16_Numerator, C16_Divisor)>>

C16_Witness ==
    /\ pixel_op = "ratio_neighbour"
    /\ C16_Divisor = 0
    /\ C16_Numerator # 0
    /\ pixel_out = <<QInt(1)>>

InRange(value, low, high) == ~QLess(value, QInt(low)) /\ ~QLess(QInt(high), value)

\* C17 (as claimed): for every stack, every neighbour order >= 1 and every
\* ratio weight q, sum_differences and sum_ratios lie within [0, 255].
C17_SumsWithinByte ==
    pixel_op = "nielsen" =>
        /\ InRange(pixel_out.sum_differences, lowest, highest)
        /\ InRange(pixel_out.sum_ratios, lowest, highest)

\* C17 (amended): every difference term and every ratio term lies within
\* [0, 255]; sum_differences and sum_ratios, the sums of `order` such terms,
\* lie within [0, 255 * order].
C17_SumsWithinOrderBytes ==
    pixel_op = "nielsen" =>
        /\ \A k \in 1..pixel_in.frame_count :
               /\ InRange(pixel_out.differences[k], lowest, highest)
               /\ InRange(pixel_out.ratios[k], lowest, highest)
        /\ InRange(pixel_out.sum_differences, lowest, highest * pixel_in.frame_count)
        /\ InRange(pixel_out.sum_ratios, lowest, highest * pixel_in.frame_count)

C17_Witness ==
    /\ pixel_op = "nielsen"
    /\ pixel_in.frame_count >= 2
    /\ pixel_in.dtype = "float32"
    /\ pixel_out.sum_differences = QInt(highest * pixel_in.frame_count)
    /\ QLess(QInt(highest), pixel_out.sum_ratios)

\* C18 (as claimed): in every sample type each difference term is the true
\* difference base - frame clamped to [0, 255]: 0 wherever base < frame.
C18_DifferenceSaturates ==
    pixel_op = "nielsen" =>
        \A k \in 1..pixel_in.frame_count :
            LET base == pixel_in.column[pixel_in.start_index + 1]
                frame == pixel_in.column[loop_frames(pixel_in.start_index,
                                                     pixel_in.frame_count)[k] + 1]
            IN pixel_out.differences[k] =
                   QInt(Max(lowest, Min(highest, base - frame)))

\* the limits convert_image works with
C19_Min == IF pixel_in.image_min = NotGiven THEN SeqMin(pixel_in.image)
           ELSE pixel_in.image_min[1]
C19_Max == IF pixel_in.image_max = NotGiven THEN SeqMax(pixel_in.image)
           ELSE pixel_in.image_max[1]

\* C19: convert_image on an image whose input minimum equals its input
\* maximum (a constant image, or equal explicit limits) returns zeros of the
\* requested type in the input's shape, and never divides by zero.
C19_ConstantImageToZeros ==
    pixel_op = "convert_image" =>
        /\ ~pixel_out.by_zero
        /\ C19_Min = C19_Max =>
               /\ ~pixel_out.divided
               /\ pixel_out.type = pixel_in.target.type
               /\ Len(pixel_out.pixels) = Len(pixel_in.image)
               /\ \A p \in 1..Len(pixel_out.pixels) : pixel_out.pixels[p] = QInt(0)

C19_Witness ==
    /\ pixel_op = "convert_image"
    /\ pixel_in.image_min = NotGiven
    /\ pixel_in.image_max = NotGiven
    /\ Len(pixel_in.image) = MaxPixels
    /\ C19_Min = C19_Max
    /\ C19_Min # 0
    /\ pixel_out.pixels = [p \in 1..MaxPixels |-> QInt(0)]

\* C20: evaluating the pipeline, for any frame index, mode and stages
\* enabled, the in-place clip stage and the bake loop included, leaves every
\* sample of the series as it is.
C20_PipelineReadsOnly ==
    [][/\ frame_ops' = frame_ops
       /\ image_array' = image_array
       /\ displayed_array' = displayed_array]_vars

C20_Witness ==
    /\ clipping_check = 1
    /\ pre_processing_value = pre_processing_default
    /\ number_of_images > 1
    /\ current_image_number = number_of_images - 1
    /\ frames_read = {current_image_number}
    /\ frame_ops = FreshOps(image_array)

\* C13 (as claimed): a flat/dark correction is applied only when both the
\* flat and the dark reference have the series' (height, width); otherwise an
\* error is reported and every frame of the series is left unchanged.
C13_CorrectionNeedsBothShapes ==
    [][apply_flat_dark_correction =>
          IF flat = array_shape /\ dark = array_shape
          THEN frame_ops' = Applied(frame_ops, <<"correct">>)
          ELSE /\ frame_ops' = frame_ops
               /\ prep_error' = "none"
               /\ data_import_status' \in
                      {"Error: No flat/dark data loaded!",
                       "Error: Must perform flat/dark correction before cropping!"}]_vars

\* crop/rotate has been applied to the current series
CropApplied == \E j \in 1..Len(frame_ops) : \E k \in 1..Len(frame_ops[j]) :
                   frame_ops[j][k] \in {"crop", "rotate"}

\* C14 (as claimed): in every sequence of imports, crops/rotations and
\* corrections, a correction requested after crop/rotate was applied to the
\* current series is rejected as an invalid ordering and leaves the series
\* unchanged.
C14_CorrectionAfterCropRejected ==
    [][(apply_flat_dark_correction /\ CropApplied) =>
          /\ frame_ops' = frame_ops
          /\ prep_error' = "none"
          /\ data_import_status' \in
                 {"Error: Must perform flat/dark correction before cropping!",
                  "Error: No flat/dark data loaded!"}]_vars

\* C15 (as claimed): the crop rotates every frame of the uncropped series
\* first when the tilt is not zero, and leaves the sub-view
\* [yTop:yBot, xLeft:xRight] of every frame, of shape
\* (yBot - yTop, xRight - xLeft, N) with the frame count N unchanged.
C15_CropShape ==
    [][(apply_crop_data /\ image_array # None) =>
          /\ array_shape' = <<y_bot - y_top, x_right - x_left>>
          /\ Len(frame_ops') = Len(frame_ops)
          /\ \A j \in 1..Len(frame_ops) :
                 frame_ops'[j] = frame_ops[j] \o (IF image_tilt # QInt(0)
                                                 THEN <<"rotate", "crop">>
                                                 ELSE <<"crop">>)]_vars

FailureKind(c, tag) ==
    IF c.fn = "" THEN ""
    ELSE IF c.kind = "other" THEN (IF c.exists THEN "UnsupportedFormat" ELSE "")
    ELSE IF c.kind = "cine" /\ ~c.pycine
    THEN (IF c.exists THEN "DecodingUnavailable" ELSE "")
    ELSE IF ~c.exists THEN "NotFound"
    ELSE IF tag = "value" THEN "Success"
    ELSE ""

\* C11 (as claimed): two calls of the same loader or averager whose outcomes
\* are of different kinds (success, UnsupportedFormat, NotFound,
\* DecodingUnavailable) give their caller results that can be told apart: the
\* failures from one another and from a returned series or reference frame.
C11_FailuresDistinguishable ==
    (/\ call.fn = previous.call.fn
     /\ FailureKind(call, returned.tag) # ""
     /\ FailureKind(previous.call, previous.tag) # ""
     /\ FailureKind(call, returned.tag) # FailureKind(previous.call, previous.tag))
    => <<returned.tag, returned.exc>> # <<previous.tag, previous.exc>>

\* C12 (as claimed): after flat/dark correction every sample of every frame is
\* exactly 1 where flat equals dark, whatever the raw value, and
\* (raw - dark) / (flat - dark) elsewhere; a zero denominator raises nothing.
C12_CorrectedValue ==
    pixel_op = "flat_dark_correction" =>
        \A j \in 1..Len(pixel_in.raw) :
            pixel_out[j] =
                IF pixel_in.flat = pixel_in.dark THEN <<1, 1>>
                ELSE Q(pixel_in.raw[j] - pixel_in.dark, pixel_in.flat - pixel_in.dark)

\* the frame of the claim's formula: frame[j] at the pixel followed
C21_Frame(j) == pixel_in.column[j + 1]
C21_Saturate(value) ==
    IF QLess(value, QInt(0)) THEN QInt(0)
    ELSE IF QLess(QInt(255), value) THEN QInt(255) ELSE value

\* C21: mode selection for index i and neighbour order k returns: mode 1
\* frame[i] - frame[0]; mode 2 frame[i+k] - frame[i]; mode 3 frame[i] /
\* frame[0]; mode 4 frame[i+k] / frame[i] (1 where the divisor is 0); mode 5
\* the Nielsen combination over the window frames i..i+k with base frame i;
\* mode 0 and any other value frame[i].  Differences are taken in the series'
\* sample type.
C21_ModeSelection ==
    pixel_op = "apply_pre_processing" =>
        LET i == pixel_in.i
            k == pixel_in.k
            minus(a, b) == QInt(subtracted(a, b, pixel_in.dtype))
            over(a, b) == IF b = 0 THEN QInt(1) ELSE Q(a, b)
        IN pixel_out =
           <<CASE pixel_in.mode = 1 -> minus(C21_Frame(i), C21_Frame(0))
               [] pixel_in.mode = 2 -> minus(C21_Frame(i + k), C21_Frame(i))
               [] pixel_in.mode = 3 -> over(C21_Frame(i), C21_Frame(0))
               [] pixel_in.mode = 4 -> over(C21_Frame(i + k), C21_Frame(i))
               [] pixel_in.mode = 5 ->
                    QAdd(QMul(QInt(pixel_in.d),
                              QSum([m \in 1..k |->
                                       C21_Saturate(minus(C21_Frame(i), C21_Frame(i + m)))])),
                         QSum([m \in 1..k |->
                                  C21_Saturate(QMul(QInt(pixel_in.q),
                                                    over(C21_Frame(i), C21_Frame(i + m))))]))
               [] OTHER -> QInt(C21_Frame(i))>>

C21_Witness ==
    /\ pixel_op = "apply_pre_processing"
    /\ pixel_in.mode = 2
    /\ pixel_in.dtype = "float32"
    /\ pixel_in.i > 0
    /\ pixel_out = <<QInt(MaxSample)>>
    /\ C21_Frame(pixel_in.i) = 0

\* C22 (as claimed): for a start index s >= 0 and a frame count n with s + n
\* inside the stack, sum_differences and sum_ratios compare the base frame
\* stack[s] with exactly the frames stack[s+1] .. stack[s+n].
C22_ConsecutiveFrames ==
    (/\ pixel_op \in {"nielsen", "IndexError"}
     /\ pixel_in.start_index + pixel_in.frame_count < Len(pixel_in.column)) =>
        /\ pixel_op = "nielsen"
        /\ \A m \in 1..pixel_in.frame_count :
               LET base == pixel_in.column[pixel_in.start_index + 1]
                   frame == pixel_in.column[pixel_in.start_index + m + 1]
               IN /\ pixel_out.differences[m] =
                        calculate_difference(base, frame, pixel_in.dtype)
                  /\ pixel_out.ratios[m] = calculate_ratio(base, frame, pixel_in.q)

\* the stages of an evaluation, without the range conversions
C23_Order == <<"clip", "gaussian", "nlmeans", "clahe", "resize", "zoom">>
C23_Enabled(stage) ==
    CASE stage = "clip" -> pixel_in.clip = 1
      [] stage = "gaussian" -> pixel_in.gaussian = 1
      [] stage = "nlmeans" -> pixel_in.nlmeans = 1
      [] stage = "clahe" -> pixel_in.clahe = 1
      [] stage = "resize" -> pixel_in.resize_value # QInt(1)
      [] stage = "zoom" -> pixel_in.zoom_value # QInt(1)
C23_Position(stage) == CHOOSE n \in 1..Len(C23_Order) : C23_Order[n] = stage
C23_Stages == SelectSeq(pixel_out, LAMBDA made : made.stage # "convert")

\* C23: one evaluation applies exactly the enabled stages, in the order
\* clip, Gaussian, denoise, CLAHE, resize (factor # 1), zoom (factor # 1),
\* each on the output of the one before it.
C23_StagesInOrder ==
    pixel_op = "recalculate_image" =>
        /\ \A n \in 1..Len(C23_Order) :
               C23_Enabled(C23_Order[n]) <=>
                   Cardinality({m \in 1..Len(C23_Stages) :
                                   C23_Stages[m].stage = C23_Order[n]}) = 1
        /\ \A m \in 1..Len(C23_Stages) : \E n \in 1..Len(C23_Order) :
               C23_Stages[m].stage = C23_Order[n]
        /\ \A m \in 1..(Len(C23_Stages) - 1) :
               C23_Position(C23_Stages[m].stage) < C23_Position(C23_Stages[m + 1].stage)
        /\ \A m \in 1..Len(pixel_out) :
               pixel_out[m].reads = IF m = 1 THEN "apply_pre_processing"
                                    ELSE pixel_out[m - 1].stage

C23_Witness ==
    /\ pixel_op = "recalculate_image"
    /\ Len(C23_Stages) = Len(C23_Order)

C24_Conversions == {m \in 1..Len(pixel_out) : pixel_out[m].stage = "convert"}

\* C24: with CLAHE enabled the frame is converted to the 16-bit range exactly
\* once before CLAHE runs, by the denoise stage when that is enabled and
\* otherwise immediately before CLAHE; with neither enabled nothing converts.
C24_ConvertedOnce ==
    pixel_op = "recalculate_image" =>
        /\ pixel_in.clahe = 1 =>
               /\ Cardinality(C24_Conversions) = 1
               /\ \A m \in C24_Conversions :
                      pixel_out[m + 1].stage =
                          IF pixel_in.nlmeans = 1 THEN "nlmeans" ELSE "clahe"
        /\ (pixel_in.clahe # 1 /\ pixel_in.nlmeans # 1) => C24_Conversions = {}

C24_Witness ==
    /\ pixel_op = "recalculate_image"
    /\ pixel_in.clahe = 1
    /\ pixel_in.nlmeans = 1
    /\ pixel_in.gaussian = 1
    /\ Cardinality(C24_Conversions) = 1

\* the nearest integer of a non-negative rational
C25_Round(value) == Trunc(QAdd(value, Q(1, 2)))

\* C25 (as claimed): for every slider value p in 0.0..20.0 the denoise
\* strength is round(p / 100 * 65535), the nearest integer.
C25_StrengthRounded ==
    pixel_op = "adjust_nlmeans_h_value" =>
        pixel_out = <<C25_Round(Q(pixel_in.tenths * 65535, 1000))>>

\* C26 (as claimed): for different limits convert_image maps in to
\* a * in + b with a = (outMax - outMin) / (inMax - inMin) and
\* b = outMax - a * inMax; a value that falls outside the target type's range
\* is saturated into the type, not wrapped.
C26_AffineSaturated ==
    (pixel_op = "convert_image" /\ C19_Min # C19_Max) =>
        \A p \in 1..Len(pixel_in.image) :
            LET a == Q(pixel_in.target.high - pixel_in.target.low, C19_Max - C19_Min)
                b == QSub(QInt(pixel_in.target.high), QMul(a, QInt(C19_Max)))
                value == Trunc(QAdd(QMul(a, QInt(pixel_in.image[p])), b))
            IN pixel_out.pixels[p] =
                   QInt(Max(0, Min(TypeMax(pixel_in.target.type), value)))

\* C27 (as claimed): every export (all frames, frame interval, video, packed
\* array) that runs to its end leaves the current frame index at the value it
\* had when the export was requested.
C27_ExportKeepsIndex ==
    [][export_finish => current_image_number' = index_at_request]_vars

\* C28 (as claimed): an import, a flat/dark correction and a crop/rotation
\* act on the held series only; the samples and the shape of the displayed
\* series stay as they are until update_gui is invoked.
C28_Preparing ==
    \/ \E outcome \in ImportOutcomes : import_rawdata(outcome)
    \/ apply_flat_dark_correction
    \/ apply_crop_data

C28_DisplayedUntilUpdate ==
    [][C28_Preparing => displayed_array' = displayed_array /\ displayed_ops' = displayed_ops]_vars

\* C29 (as claimed): however the presses of the play/pause button interleave
\* with the scheduled loop_play callbacks, at most one callback is pending at
\* any time, and a callback that runs while playback is paused leaves the
\* frame index where it is.
C29_PausedLoopIdle == loop_play /\ play_state = FALSE => current_image_number' = current_image_number

C29_SingleLoop ==
    [][loop_pending' <= 1 /\ C29_PausedLoopIdle]_vars

\* C30 (as claimed): an import from an existing file or directory with a
\* range first <= last, first = last included, completes: no pass of the
\* polling loop fails (every pass leaves the call in its loop until the
\* loader, which is finite, has ended), and the join that follows replaces the
\* held series by the frames the loader returned.
C30_RangeInOrder ==
    /\ thread_args.kind \in {"npy", "cine", "dir"}
    /\ thread_args.start <= thread_args.end

C30_ImportCompletes ==
    [][/\ (import_poll /\ C30_RangeInOrder) => imp_pc' = "poll"
       /\ (import_join /\ C30_RangeInOrder) =>
              (image_array' = thread_return /\ data_import_status' = "loaded!")]_vars

=============================================================================
